---------------------------- MODULE Spec2Model ----------------------------
(***************************************************************************)
(* A model of SpendLite (src/script.js): CSV import, rule parsing, keyword *)
(* matching, categorisation, rule upsert and the handlers that drive them. *)
(*                                                                         *)
(* Representation.                                                         *)
(*   - A JavaScript string is a sequence of one-character strings:         *)
(*     "ab" is <<"a", "b">> and "" is <<>>.  The alphabet is ASCII.        *)
(*   - A JavaScript number that comes out of parseAmount is written as the *)
(*     decimal it was parsed from, [m |-> mantissa, e |-> fraction        *)
(*     digits], normalised so that m is not a multiple of 10 unless        *)
(*     e = 0: it stands for the double nearest to m / 10^e.  NaN is a      *)
(*     value of its own.  Sums are doubles, written in binary (SECTION 9). *)
(*   - A property that an object does not have (a transaction before       *)
(*     categorise has run on it has no category) is the value undefined.   *)
(***************************************************************************)
EXTENDS Integers, Sequences, FiniteSets, TLC

VARIABLES
  CURRENT_TXNS,    \* script.js:49   all loaded transactions
  CURRENT_RULES,   \* script.js:50   rules parsed at the last applyRulesAndRender
  CURRENT_FILTER,  \* script.js:51   active category filter, null = none
  MONTH_FILTER,    \* script.js:52   selected month "YYYY-MM", "" = all months
  CURRENT_PAGE,    \* script.js:53   page of the transactions table
  rulesBox,        \* the value of the #rulesBox textarea
  catLinks,        \* the data-cat values of the category links last rendered
  table,           \* what renderTransactionsTable last put on the page: the indices
                   \* of the rows shown, the page and the number of pages of the pager
  wheelPages,      \* script.js:699,757  the `pages` the wheel listener closed over,
                   \* 0 while no listener is bound
  monthSel,        \* the value of the #monthFilter dropdown
  picker,          \* the open category picker: the idx and the categories that
                   \* assignCategory(idx) handed to it; idx 0 when it is closed
  session,         \* fetching: the DOMContentLoaded listener still awaits
                   \* fetch('rules.txt'); handlers: the handlers run so far
  lsTxns,          \* localStorage[LS_KEYS.TXNS_JSON]: the transactions last saved
  lsFilter,        \* localStorage[LS_KEYS.FILTER], "" when the item is absent
  lsMonth,         \* localStorage[LS_KEYS.MONTH], "" when the item is absent
  assigned,        \* history: index -> category the user last chose in the picker
  pc,              \* "app" in the application; "call"/"done" around one function call
  call,            \* the arguments of the function call under study
  ret              \* its result, once pc = "done"; in the application the state of
                   \* SECTION 23 (the close button)

appVars == <<CURRENT_TXNS, CURRENT_RULES, CURRENT_FILTER, MONTH_FILTER, CURRENT_PAGE,
             rulesBox, catLinks, table, wheelPages, monthSel, picker, session,
             lsTxns, lsFilter, lsMonth, assigned>>

vars == <<appVars, pc, call, ret>>

-----------------------------------------------------------------------------
(* JavaScript values *)

undefined == <<"undefined">>
null == <<"null">>
NaN == [nan |-> TRUE]

-----------------------------------------------------------------------------
(* Characters and strings *)

LowerLetters == <<"a","b","c","d","e","f","g","h","i","j","k","l","m",
                  "n","o","p","q","r","s","t","u","v","w","x","y","z">>
UpperLetters == <<"A","B","C","D","E","F","G","H","I","J","K","L","M",
                  "N","O","P","Q","R","S","T","U","V","W","X","Y","Z">>
DigitChars == <<"0","1","2","3","4","5","6","7","8","9">>

LowerSet == {LowerLetters[i] : i \in 1..26}
UpperSet == {UpperLetters[i] : i \in 1..26}
DigitSet == {DigitChars[i] : i \in 1..10}

ToLowerMap == [c \in UpperSet |-> LowerLetters[CHOOSE i \in 1..26 : UpperLetters[i] = c]]
ToUpperMap == [c \in LowerSet |-> UpperLetters[CHOOSE i \in 1..26 : LowerLetters[i] = c]]
DigitValue == [c \in DigitSet |-> (CHOOSE i \in 1..10 : DigitChars[i] = c) - 1]

\* the vertical tab, U+000B (the character itself stands between the quotes)
VT == ""
\* \s of a JavaScript regular expression, and the characters trim() strips: those
\* of them the ASCII alphabet holds
isSpace(c) == c \in {" ", "\t", "\n", "\r", "\f", VT}
\* \d
isDigit(c) == c \in DigitSet
\* \w, the class behind \b
isRegexWord(c) == c \in LowerSet \cup UpperSet \cup DigitSet \cup {"_"}
\* [A-Za-z0-9&._]: the "word characters" of matchesKeyword and the keyword deriver
isWordChar(c) == c \in LowerSet \cup UpperSet \cup DigitSet \cup {"&", ".", "_"}

toLowerCase(s) == [i \in 1..Len(s) |-> IF s[i] \in UpperSet THEN ToLowerMap[s[i]] ELSE s[i]]
toUpperCase(s) == [i \in 1..Len(s) |-> IF s[i] \in LowerSet THEN ToUpperMap[s[i]] ELSE s[i]]

SetMin(S) == CHOOSE x \in S : \A y \in S : x <= y
SetMax(S) == CHOOSE x \in S : \A y \in S : y <= x

\* String.prototype.trim
trim(s) ==
  LET keep == {i \in 1..Len(s) : ~isSpace(s[i])}
  IN  IF keep = {} THEN <<>> ELSE SubSeq(s, SetMin(keep), SetMax(keep))

\* s.startsWith(p) at offset i (1-based)
startsWithAt(s, p, i) ==
  /\ i >= 1
  /\ i + Len(p) - 1 <= Len(s)
  /\ \A k \in 1..Len(p) : s[i + k - 1] = p[k]

startsWith(s, p) == startsWithAt(s, p, 1)

\* s.indexOf(p), 1-based; 0 when p does not occur
indexOf(s, p) ==
  LET at == {i \in 1..(Len(s) - Len(p) + 1) : startsWithAt(s, p, i)}
  IN  IF at = {} THEN 0 ELSE SetMin(at)

\* s.split(/\r?\n/)
RECURSIVE splitLines(_)
splitLines(s) ==
  LET nl == indexOf(s, <<"\n">>)
  IN  IF nl = 0 THEN <<s>>
      ELSE LET cr   == nl > 1 /\ s[nl - 1] = "\r"
               line == SubSeq(s, 1, IF cr THEN nl - 2 ELSE nl - 1)
           IN  <<line>> \o splitLines(SubSeq(s, nl + 1, Len(s)))

\* s.split(/=>/i)
RECURSIVE splitArrow(_)
splitArrow(s) ==
  LET a == indexOf(s, <<"=", ">">>)
  IN  IF a = 0 THEN <<s>>
      ELSE <<SubSeq(s, 1, a - 1)>> \o splitArrow(SubSeq(s, a + 2, Len(s)))

\* s.split(/\s+/).filter(Boolean): the maximal runs of non-whitespace
RECURSIVE splitWords(_)
splitWords(s) ==
  LET t == trim(s)
      sp == {i \in 1..Len(t) : isSpace(t[i])}
  IN  IF t = <<>> THEN <<>>
      ELSE IF sp = {} THEN <<t>>
      ELSE <<SubSeq(t, 1, SetMin(sp) - 1)>> \o splitWords(SubSeq(t, SetMin(sp), Len(t)))

\* lines.join("\n")
RECURSIVE joinLines(_)
joinLines(lines) ==
  IF lines = <<>> THEN <<>>
  ELSE IF Len(lines) = 1 THEN lines[1]
  ELSE lines[1] \o <<"\n">> \o joinLines(Tail(lines))

\* the concatenation of a sequence of strings
RECURSIVE Flatten(_)
Flatten(ss) == IF ss = <<>> THEN <<>> ELSE Head(ss) \o Flatten(Tail(ss))

-----------------------------------------------------------------------------
(* Numbers, as the decimals they are parsed from *)

RECURSIVE Pow10(_)
Pow10(n) == IF n <= 0 THEN 1 ELSE 10 * Pow10(n - 1)

RECURSIVE Normalise(_, _)
Normalise(m, e) ==
  IF e > 0 /\ m % 10 = 0 THEN Normalise(m \div 10, e - 1) ELSE [m |-> m, e |-> e]

Dec(m, e) == Normalise(m, e)
Zero == Dec(0, 0)

Abs(n) == IF n < 0 THEN -n ELSE n
\* Math.abs
MathAbs(x) == [m |-> Abs(x.m), e |-> x.e]
\* x <= n for an integer n
DecLeqInt(x, n) == x.m <= n * Pow10(x.e)

RECURSIVE DigitsValue(_)
DigitsValue(ds) ==
  IF ds = <<>> THEN 0
  ELSE 10 * DigitsValue(SubSeq(ds, 1, Len(ds) - 1)) + DigitValue[ds[Len(ds)]]

AllDigits(s) == \A i \in 1..Len(s) : isDigit(s[i])

\* Number(s) for a string of digits, '-' and '.'  (StringToNumber: "" is 0; an
\* optional sign, then digits[.digits] or .digits; anything else is NaN)
Number(s) ==
  LET neg  == s # <<>> /\ s[1] = "-"
      body == IF neg THEN Tail(s) ELSE s
      dot  == indexOf(body, <<".">>)
      ip   == IF dot = 0 THEN body ELSE SubSeq(body, 1, dot - 1)
      fp   == IF dot = 0 THEN <<>> ELSE SubSeq(body, dot + 1, Len(body))
      ok   == /\ AllDigits(ip) /\ AllDigits(fp)
              /\ Len(ip) + Len(fp) > 0
      mag  == DigitsValue(ip \o fp)
  IN  IF s = <<>> THEN Zero
      ELSE IF ~ok THEN NaN
      ELSE Dec(IF neg THEN -mag ELSE mag, Len(fp))

isNaN(x) == x = NaN

\* script.js:140  Number(s) || 0
orZero(n) == IF isNaN(n) \/ n = Zero THEN Zero ELSE n

\* script.js:132  parseAmount
parseAmount(s) ==
  IF s = undefined THEN Zero
  ELSE orZero(Number(SelectSeq(SelectSeq(s, LAMBDA c : isDigit(c) \/ c \in {"-", ",", "."}),
                               LAMBDA c : c # ",")))

-----------------------------------------------------------------------------
(* String constants of the program *)

PETROL == <<"P","E","T","R","O","L">>
COFFEE == <<"C","O","F","F","E","E">>
UNCATEGORISED == <<"U","N","C","A","T","E","G","O","R","I","S","E","D">>
ARROW == <<" ","=",">"," ">>

-----------------------------------------------------------------------------
(* SECTION 8: categorisation rules *)

\* ruleOfLine, taking the category from the text after the last "=>"
ruleOfLine_lastSegment(line) ==
  LET trimmed == trim(line)
      parts   == splitArrow(trimmed)
  IN  IF trimmed = <<>> \/ startsWith(trimmed, <<"#">>) THEN <<>>
      ELSE IF Len(parts) >= 2
      THEN LET keyword  == toLowerCase(trim(parts[1]))
               category == toUpperCase(trim(parts[Len(parts)]))
           IN  IF keyword # <<>> /\ category # <<>>
               THEN <<[keyword |-> keyword, category |-> category]>>
               ELSE <<>>
      ELSE <<>>

\* script.js:364-381  the body of parseRules' loop: the rules one line contributes
ruleOfLine(line) ==
  LET trimmed == trim(line)
      parts   == splitArrow(trimmed)
  IN  IF trimmed = <<>> \/ startsWith(trimmed, <<"#">>) THEN <<>>
      ELSE IF Len(parts) >= 2
      THEN LET keyword  == toLowerCase(trim(parts[1]))
               category == toUpperCase(trim(parts[2]))
           IN  IF keyword # <<>> /\ category # <<>>
               THEN <<[keyword |-> keyword, category |-> category]>>
               ELSE <<>>
      ELSE <<>>

\* script.js:359  parseRules
parseRules(text) ==
  LET lines == splitLines(text)
  IN  Flatten([i \in 1..Len(lines) |-> ruleOfLine(lines[i])])

\* tokenTest, with '.' taken for a delimiter
tokenTest_dotDelimits(text, tok) ==
  \E i \in 1..(Len(text) - Len(tok) + 1) :
    /\ startsWithAt(toLowerCase(text), toLowerCase(tok), i)
    /\ (i = 1 \/ ~isWordChar(text[i - 1]) \/ text[i - 1] = ".")
    /\ (i + Len(tok) - 1 = Len(text) \/ ~isWordChar(text[i + Len(tok)])
          \/ text[i + Len(tok)] = ".")

\* script.js:408-418  one token's regular expression, tested on the text:
\* (?:^|[^A-Za-z0-9&._])tok(?:[^A-Za-z0-9&._]|$) with flag i
tokenTest(text, tok) ==
  \E i \in 1..(Len(text) - Len(tok) + 1) :
    /\ startsWithAt(toLowerCase(text), toLowerCase(tok), i)
    /\ (i = 1 \/ ~isWordChar(text[i - 1]))
    /\ (i + Len(tok) - 1 = Len(text) \/ ~isWordChar(text[i + Len(tok)]))

\* script.js:393  matchesKeyword
matchesKeyword(descLower, keywordLower) ==
  IF keywordLower = <<>> THEN FALSE
  ELSE LET text   == toLowerCase(descLower)
           tokens == splitWords(toLowerCase(keywordLower))
       IN  /\ tokens # <<>>
           /\ \A k \in 1..Len(tokens) : tokenTest(text, tokens[k])

\* firstMatch, keeping the last matching rule instead of stopping at the first
firstMatch_lastWins(descLower, rules) ==
  LET hits == {k \in 1..Len(rules) : matchesKeyword(descLower, rules[k].keyword)}
  IN  IF hits = {} THEN null ELSE rules[SetMax(hits)].category

\* script.js:434-440  the category of the first rule that matches, or null
firstMatch(descLower, rules) ==
  LET hits == {k \in 1..Len(rules) : matchesKeyword(descLower, rules[k].keyword)}
  IN  IF hits = {} THEN null ELSE rules[SetMin(hits)].category

\* script.js:443-445  the special rule: a PETROL purchase of at most $2 is COFFEE
adjustPetrol(matched, amount) ==
  IF matched # null /\ matched # <<>> /\ toUpperCase(matched) = PETROL /\ DecLeqInt(amount, 2)
  THEN COFFEE ELSE matched

\* script.js:448  matched || "UNCATEGORISED"
orUncategorised(matched) ==
  IF matched # null /\ matched # <<>> THEN matched ELSE UNCATEGORISED

\* categoryFor, comparing the signed amount with 2
categoryFor_signed(t, rules) ==
  orUncategorised(adjustPetrol(firstMatch(toLowerCase(t.description), rules), t.amount))

\* script.js:429-449  the category categorise stores on one transaction
categoryFor(t, rules) ==
  orUncategorised(adjustPetrol(firstMatch(toLowerCase(t.description), rules),
                               MathAbs(t.amount)))

\* categorise, passing over the transactions that carry a category already
categorise_keepsAssigned(txns, rules) ==
  [i \in 1..Len(txns) |->
     IF txns[i].category # undefined THEN txns[i]
     ELSE [txns[i] EXCEPT !.category = categoryFor(txns[i], rules)]]

\* script.js:427  categorise: every transaction of txns gets its category
categorise(txns, rules) ==
  [i \in 1..Len(txns) |-> [txns[i] EXCEPT !.category = categoryFor(txns[i], rules)]]

-----------------------------------------------------------------------------
(* SECTION 5: date parsing *)

\* the decimal digits of a natural number: String(n)
RECURSIVE natToStr(_)
natToStr(n) ==
  IF n < 10 THEN <<DigitChars[n + 1]>>
  ELSE natToStr(n \div 10) \o <<DigitChars[(n % 10) + 1]>>

\* String(n).padStart(2, '0')
padStart2(s) == IF Len(s) < 2 THEN <<"0">> \o s ELSE s

isLeap(y) == (y % 4 = 0 /\ y % 100 # 0) \/ y % 400 = 0

\* the days of month mi (0-based) of year y
daysInMonth(y, mi) ==
  IF mi = 1 THEN (IF isLeap(y) THEN 29 ELSE 28)
  ELSE IF mi \in {3, 5, 8, 10} THEN 30 ELSE 31

\* MakeDay: a year, a month 0..11 and a day of any size, carried into range
RECURSIVE carryDay(_, _, _)
carryDay(y, mi, d) ==
  IF d < 1
  THEN LET py == IF mi = 0 THEN y - 1 ELSE y
           pm == IF mi = 0 THEN 11 ELSE mi - 1
       IN  carryDay(py, pm, d + daysInMonth(py, pm))
  ELSE IF d > daysInMonth(y, mi)
  THEN carryDay(IF mi = 11 THEN y + 1 ELSE y, IF mi = 11 THEN 0 ELSE mi + 1,
                d - daysInMonth(y, mi))
  ELSE <<y, mi, d>>

\* new Date(y, monthIndex, day), read back in local time as <<year, month, day>>
\* (month 0-based): years 0..99 mean 1900..1999, and a month or day out of range
\* is carried
Date(y, monthIndex, day) ==
  LET yr == IF y >= 0 /\ y <= 99 THEN 1900 + y ELSE y
      fy == yr + ((monthIndex - (monthIndex % 12)) \div 12)
  IN  carryDay(fy, monthIndex % 12, day)

\* s.split(/[\/-]/)
RECURSIVE splitDateSep(_)
splitDateSep(s) ==
  LET at == {i \in 1..Len(s) : s[i] \in {"/", "-"}}
  IN  IF at = {} THEN <<s>>
      ELSE <<SubSeq(s, 1, SetMin(at) - 1)>> \o splitDateSep(SubSeq(s, SetMin(at) + 1, Len(s)))

\* the number of leading digits of s
leadingDigits(s) ==
  LET non == {i \in 1..Len(s) : ~isDigit(s[i])}
  IN  IF non = {} THEN Len(s) ELSE SetMin(non) - 1

\* the number of leading whitespace characters of s
leadingSpaces(s) ==
  LET non == {i \in 1..Len(s) : ~isSpace(s[i])}
  IN  IF non = {} THEN Len(s) ELSE SetMin(non) - 1

dropFirst(s, n) == SubSeq(s, n + 1, Len(s))

WeekDays == {<<"m","o","n">>, <<"t","u","e">>, <<"w","e","d">>, <<"t","h","u">>,
             <<"f","r","i">>, <<"s","a","t">>, <<"s","u","n">>}

\* script.js:201  monthMap, as a sequence: monthIndex = position - 1
MonthNames == <<
  <<"j","a","n","u","a","r","y">>, <<"f","e","b","r","u","a","r","y">>,
  <<"m","a","r","c","h">>, <<"a","p","r","i","l">>, <<"m","a","y">>,
  <<"j","u","n","e">>, <<"j","u","l","y">>, <<"a","u","g","u","s","t">>,
  <<"s","e","p","t","e","m","b","e","r">>, <<"o","c","t","o","b","e","r">>,
  <<"n","o","v","e","m","b","e","r">>, <<"d","e","c","e","m","b","e","r">> >>

\* s without its leading whitespace: the \s* and \s+ of the patterns
skipSpaces(s) == dropFirst(s, leadingSpaces(s))

\* script.js:190  (am|pm)\s* at the head of r3, removed; str when it is not there
stripAmPm(str, r3) ==
  IF Len(r3) >= 2 /\ toLowerCase(SubSeq(r3, 1, 2)) \in {<<"a","m">>, <<"p","m">>}
  THEN skipSpaces(dropFirst(r3, 2))
  ELSE str

\* script.js:190  :\d{2}\s*(am|pm)\s* at the head of r1, removed
stripMinutes(str, r1) ==
  IF Len(r1) >= 3 /\ r1[1] = ":" /\ isDigit(r1[2]) /\ isDigit(r1[3])
  THEN stripAmPm(str, skipSpaces(dropFirst(r1, 3)))
  ELSE str

\* script.js:190  str.replace(/^\d{1,2}:\d{2}\s*(am|pm)\s*/i, '')
stripTime(str) ==
  IF leadingDigits(str) \in {1, 2}
  THEN stripMinutes(str, dropFirst(str, leadingDigits(str)))
  ELSE str

\* script.js:193  ,?\s+(\d{4}) on e, the text after the month name
proseYear(day, monthIndex, e) ==
  LET f == IF e # <<>> /\ e[1] = "," THEN Tail(e) ELSE e
  IN  IF leadingSpaces(f) >= 1 /\ leadingDigits(skipSpaces(f)) >= 4
      THEN Date(DigitsValue(SubSeq(skipSpaces(f), 1, 4)), monthIndex, day)
      ELSE null

\* script.js:193-208  (January|...|December) on d, the text after the day
proseMonth(day, d) ==
  LET mset == {k \in 1..12 : startsWith(d, MonthNames[k])}
  IN  IF mset = {} THEN null
      ELSE proseYear(day, SetMin(mset) - 1, dropFirst(d, Len(MonthNames[SetMin(mset)])))

\* script.js:193  (\d{1,2})\s+ on b, the text after the optional weekday
proseDay(b) ==
  LET nd == leadingDigits(b)
  IN  IF nd \in {1, 2} /\ leadingSpaces(dropFirst(b, nd)) >= 1
      THEN proseMonth(DigitsValue(SubSeq(b, 1, nd)), skipSpaces(dropFirst(b, nd)))
      ELSE null

\* script.js:193  (?:Mon|...|Sun)?\s* at the head of the lower-cased text
dropWeekday(low) ==
  skipSpaces(IF Len(low) >= 3 /\ SubSeq(low, 1, 3) \in WeekDays THEN dropFirst(low, 3) ELSE low)

\* script.js:193-209  pattern 3: [weekday] D MonthName[,] YYYY
parseProseDate(s2) == proseDay(dropWeekday(toLowerCase(s2)))

\* parseNumericDate, reading pattern 2 as M/D/YYYY
parseNumericDate_monthFirst(parts) ==
  IF Len(parts) # 3 \/ \E i \in 1..3 : ~AllDigits(parts[i]) THEN null
  ELSE IF Len(parts[1]) = 4 /\ Len(parts[2]) \in {1, 2} /\ Len(parts[3]) \in {1, 2}
  THEN Date(DigitsValue(parts[1]), DigitsValue(parts[2]) - 1, DigitsValue(parts[3]))
  ELSE IF Len(parts[1]) \in {1, 2} /\ Len(parts[2]) \in {1, 2} /\ Len(parts[3]) = 4
  THEN Date(DigitsValue(parts[3]), DigitsValue(parts[1]) - 1, DigitsValue(parts[2]))
  ELSE null

\* script.js:174-186  patterns 1 and 2 on the parts of str between '/' and '-'
parseNumericDate(parts) ==
  IF Len(parts) # 3 \/ \E i \in 1..3 : ~AllDigits(parts[i]) THEN null
  ELSE IF Len(parts[1]) = 4 /\ Len(parts[2]) \in {1, 2} /\ Len(parts[3]) \in {1, 2}
  THEN Date(DigitsValue(parts[1]), DigitsValue(parts[2]) - 1, DigitsValue(parts[3]))
  ELSE IF Len(parts[1]) \in {1, 2} /\ Len(parts[2]) \in {1, 2} /\ Len(parts[3]) = 4
  THEN Date(DigitsValue(parts[3]), DigitsValue(parts[2]) - 1, DigitsValue(parts[1]))
  ELSE null

\* script.js:170-214  parseDateSmart on the trimmed string
parseTrimmedDate(str, numeric) ==
  IF numeric # null THEN numeric ELSE parseProseDate(stripTime(str))

\* script.js:168  parseDateSmart: a Date or null
parseDateSmart(s) ==
  IF s = <<>> THEN null
  ELSE parseTrimmedDate(trim(s), parseNumericDate(splitDateSep(trim(s))))

\* Date.prototype.getFullYear, getMonth (0-based), getDate
getFullYear(d) == d[1]
getMonth(d) == d[2]
getDate(d) == d[3]

\* script.js:223  yyyymm
yyyymm(d) == natToStr(getFullYear(d)) \o <<"-">> \o padStart2(natToStr(getMonth(d) + 1))

-----------------------------------------------------------------------------
(* SECTION 6: CSV loading.  A CSV text is given as the rows Papa.parse makes *)
(* of it: a sequence of rows, each a sequence of cells (strings).            *)

COL_DATE == 2
COL_DEBIT == 5
COL_LONGDESC == 9
PAGE_SIZE == 10

\* r[i] for a 0-based column i: undefined beyond the row's end
cellAt(r, i) == IF i < Len(r) THEN r[i + 1] ELSE undefined

\* Number.isFinite, on the numbers of this model (no string of the bounded inputs
\* is long enough to overflow to Infinity)
isFinite(x) == x # NaN

\* script.js:259  the index of the first data row
startIdx(rows) ==
  IF rows # <<>> /\ isNaN(parseAmount(cellAt(rows[1], COL_DEBIT))) THEN 1 ELSE 0

\* txnOf, without the test that the amount is not zero
txnOf_keepsZero(effectiveDate, debit, longDesc) ==
  IF (effectiveDate # <<>> \/ longDesc # <<>>) /\ isFinite(debit)
  THEN <<[date |-> effectiveDate, amount |-> debit,
          description |-> longDesc, category |-> undefined]>>
  ELSE <<>>

\* script.js:276-281  the transaction pushed for a row, if it passes the filter
txnOf(effectiveDate, debit, longDesc) ==
  IF (effectiveDate # <<>> \/ longDesc # <<>>) /\ isFinite(debit) /\ debit # Zero
  THEN <<[date |-> effectiveDate, amount |-> debit,
          description |-> longDesc, category |-> undefined]>>
  ELSE <<>>

\* rowTxns, without the trim of the description cell
rowTxns_untrimmed(r) ==
  IF Len(r) < 10 THEN <<>>
  ELSE txnOf(cellAt(r, COL_DATE), parseAmount(cellAt(r, COL_DEBIT)), cellAt(r, COL_LONGDESC))

\* script.js:265-282  the transactions one row contributes
rowTxns(r) ==
  IF Len(r) < 10 THEN <<>>
  ELSE txnOf(cellAt(r, COL_DATE), parseAmount(cellAt(r, COL_DEBIT)),
             trim(cellAt(r, COL_LONGDESC)))

\* script.js:259-283  the transactions loadCsvText builds from the rows
csvTxns(rows) ==
  LET data == SubSeq(rows, startIdx(rows) + 1, Len(rows))
  IN  Flatten([i \in 1..Len(data) |-> rowTxns(data[i])])

-----------------------------------------------------------------------------
(* SECTION 7, 9, 11: filters, totals, paging *)

\* script.js:343-344  d && yyyymm(d) === MONTH_FILTER
\* inMonth, letting a transaction without a date through
inMonth_keepsUnparseable(d, monthFilter) == d = null \/ yyyymm(d) = monthFilter

\* script.js:343-346  d && yyyymm(d) === MONTH_FILTER
inMonth(d, monthFilter) == d # null /\ yyyymm(d) = monthFilter

\* script.js:338  monthFilteredTxns, as the indices of CURRENT_TXNS it returns
monthFilteredTxns(txns, monthFilter) ==
  {i \in 1..Len(txns) :
     monthFilter = <<>> \/ inMonth(parseDateSmart(txns[i].date), monthFilter)}

\* (t.category || 'UNCATEGORISED').toUpperCase()
effectiveCategory(t) ==
  IF t.category = undefined \/ t.category = <<>> THEN UNCATEGORISED
  ELSE toUpperCase(t.category)

\* script.js:617  getFilteredTxns, on a set of indices
getFilteredTxns(txns, idx, filter) ==
  IF filter = null \/ filter = <<>> THEN idx
  ELSE {i \in idx : effectiveCategory(txns[i]) = filter}

\* clampPage, without the check against the number of pages
clampPage_lowerOnly(page, n) == IF page < 1 THEN 1 ELSE page

\* script.js:658-662  the page renderTransactionsTable leaves in CURRENT_PAGE
clampPage(page, n) ==
  LET totalPages == IF n = 0 THEN 1 ELSE (n + PAGE_SIZE - 1) \div PAGE_SIZE
      p1 == IF page > totalPages THEN totalPages ELSE page
  IN  IF p1 < 1 THEN 1 ELSE p1

\* script.js:665-666  the indices shown on the current page
RECURSIVE sortedIdx(_)
sortedIdx(S) == IF S = {} THEN <<>> ELSE <<SetMin(S)>> \o sortedIdx(S \ {SetMin(S)})

\* script.js:665-666  filtered.slice(start, start + PAGE_SIZE)
pageSlice(f, page) ==
  {f[k] : k \in {k \in 1..Len(f) : k > (page - 1) * PAGE_SIZE /\ k <= page * PAGE_SIZE}}

\* script.js:658  Math.max(1, Math.ceil(filtered.length / PAGE_SIZE))
totalPagesOf(n) == IF n = 0 THEN 1 ELSE (n + PAGE_SIZE - 1) \div PAGE_SIZE

\* script.js:665-691, 707-708  what a render leaves on the page: the rows whose
\* "+" button calls assignCategory(idx), and the cur and pages of the pager
tableOf(filtered, cur, pages) ==
  [rows |-> pageSlice(sortedIdx(filtered), cur), cur |-> cur, pages |-> pages]

\* script.js:658-691, 757-773  renderTransactionsTable from its filtered list on:
\* the page is clamped, the rows and the pager are drawn, and renderPager binds
\* the wheel listener, with the pages of this render, if none is bound yet
renderFiltered(filtered, page) ==
  /\ CURRENT_PAGE' = clampPage(page, Cardinality(filtered))
  /\ table' = tableOf(filtered, clampPage(page, Cardinality(filtered)),
                      totalPagesOf(Cardinality(filtered)))
  /\ wheelPages' = IF wheelPages = 0 THEN totalPagesOf(Cardinality(filtered)) ELSE wheelPages

\* script.js:654  renderTransactionsTable(), CURRENT_PAGE being page when it is called
renderTransactionsTable(txns, monthFilter, filter, page) ==
  renderFiltered(getFilteredTxns(txns, monthFilteredTxns(txns, monthFilter), filter), page)

-----------------------------------------------------------------------------
(* SECTION 13: category assignment *)

PAYPAL == <<"P","A","Y","P","A","L">>
VISA_DASH == <<"V","I","S","A","-">>
Uncategorised == <<"U","n","c","a","t","e","g","o","r","i","s","e","d">>

\* [\s\-:\/*]
isSeparator(c) == isSpace(c) \/ c \in {"-", ":", "/", "*"}

\* the length of the leading run of separators of s
leadingSeparators(s) ==
  LET non == {i \in 1..Len(s) : ~isSeparator(s[i])}
  IN  IF non = {} THEN Len(s) ELSE SetMin(non) - 1

\* the length of the leading run of [A-Za-z0-9&._] of s
leadingWordChars(s) ==
  LET non == {i \in 1..Len(s) : ~isWordChar(s[i])}
  IN  IF non = {} THEN Len(s) ELSE SetMin(non) - 1

\* script.js:876  nextWordAfter
nextWordAfter(marker, desc) ==
  LET lower == toLowerCase(desc)
      i     == indexOf(lower, toLowerCase(marker))
      after == dropFirst(desc, i - 1 + Len(marker))
      rest  == dropFirst(after, leadingSeparators(after))
  IN  IF i = 0 THEN <<>> ELSE SubSeq(rest, 1, leadingWordChars(rest))

\* /\bPAYPAL\b/.test(up)
hasPaypalWord(up) ==
  \E i \in 1..(Len(up) - 5) :
    /\ startsWithAt(up, PAYPAL, i)
    /\ (i = 1 \/ ~isRegexWord(up[i - 1]))
    /\ (i + 5 = Len(up) \/ ~isRegexWord(up[i + 6]))

\* desc.match(/([A-Za-z0-9&._]{3,})/): the first run of three or more
firstLongRun(desc) ==
  LET starts == {i \in 1..Len(desc) :
                   /\ isWordChar(desc[i])
                   /\ (i = 1 \/ ~isWordChar(desc[i - 1]))
                   /\ leadingWordChars(dropFirst(desc, i - 1)) >= 3}
  IN  IF starts = {} THEN <<>>
      ELSE LET i == SetMin(starts)
           IN  SubSeq(desc, i, i - 1 + leadingWordChars(dropFirst(desc, i - 1)))

\* script.js:899  deriveKeywordFromTxn
deriveKeywordFromTxn(txn) ==
  LET desc    == trim(txn.description)
      up      == toUpperCase(desc)
      nxt     == nextWordAfter(PAYPAL, desc)
      visaPos == indexOf(up, VISA_DASH)
      after   == trim(dropFirst(desc, visaPos - 1 + 5))
      words   == splitWords(after)
      token   == IF words = <<>> THEN <<>> ELSE words[1]
  IN  IF desc = <<>> THEN <<>>
      ELSE IF hasPaypalWord(up)
      THEN toUpperCase(PAYPAL \o (IF nxt # <<>> THEN <<" ">> \o nxt ELSE <<>>))
      ELSE IF visaPos # 0 /\ token # <<>> THEN toUpperCase(token)
      ELSE toUpperCase(firstLongRun(desc))

\* existingRuleLine, comparing the keywords as they are written
existingRuleLine_caseSensitive(lines, kwLower) ==
  LET hit(i) == LET line  == trim(lines[i])
                    parts == splitArrow(line)
                IN  /\ line # <<>>
                    /\ ~startsWith(line, <<"#">>)
                    /\ Len(parts) >= 2
                    /\ trim(parts[1]) = kwLower
      hits == {i \in 1..Len(lines) : hit(i)}
  IN  IF hits = {} THEN 0 ELSE SetMin(hits)

\* script.js:946-961  the first line whose keyword is kwLower, 0 if none
existingRuleLine(lines, kwLower) ==
  LET hit(i) == LET line  == trim(lines[i])
                    parts == splitArrow(line)
                IN  /\ line # <<>>
                    /\ ~startsWith(line, <<"#">>)
                    /\ Len(parts) >= 2
                    /\ toLowerCase(trim(parts[1])) = kwLower
      hits == {i \in 1..Len(lines) : hit(i)}
  IN  IF hits = {} THEN 0 ELSE SetMin(hits)

\* script.js:940-968  the rules text addOrUpdateRuleLine leaves in the rules box
upsertRuleText(text, keywordUpper, categoryUpper) ==
  LET lines   == splitLines(text)
      i       == existingRuleLine(lines, toLowerCase(keywordUpper))
      newLine == keywordUpper \o ARROW \o categoryUpper
  IN  joinLines(IF i # 0 THEN [lines EXCEPT ![i] = newLine] ELSE Append(lines, newLine))

\* script.js:934  addOrUpdateRuleLine: [ok |-> its result, box |-> the rules box after]
addOrUpdateRuleLine(box, keywordUpper, categoryUpper) ==
  IF keywordUpper = <<>> \/ categoryUpper = <<>> THEN [ok |-> FALSE, box |-> box]
  ELSE [ok |-> TRUE, box |-> upsertRuleText(box, keywordUpper, categoryUpper)]

-----------------------------------------------------------------------------
(* The application: its inputs *)

\* a row of the bank's layout: n cells, the date in column 2, the amount in
\* column 5, the description in column 9, the others empty
Row(n, date, amt, desc) ==
  [i \in 1..n |-> IF i = COL_DATE + 1 THEN date
                  ELSE IF i = COL_DEBIT + 1 THEN amt
                  ELSE IF i = COL_LONGDESC + 1 THEN desc ELSE <<>>]

HeaderRow == Row(10, <<"D","a","t","e">>, <<"A","m","o","u","n","t">>, <<"D","e","s","c","r","i","p","t","i","o","n">>)

\* the CSV files the user imports
CsvA == << HeaderRow,
           Row(10, <<"0","1","/","0","2","/","2","0","2","4">>, <<"1",".","5","0">>, <<"S","H","E","L","L"," ","S","E","R","V","O">>),
           Row(10, <<"n","/","a">>, <<"$","4","5",".","0","0">>, <<" ","V","I","S","A","-","C","O","L","E","S"," ","1","2">>),
           Row(10, <<>>, <<"0",".","0","0">>, <<"F","E","E">>) >>
CsvB == << Row(10, <<"n","/","a">>, <<"-","2","0">>, <<"s","h","e","l","l">>) >>
CsvSamples == {CsvA, CsvB}

\* script.js:40  SAMPLE_RULES
SAMPLE_RULES == <<"#"," ","R","u","l","e","s"," ","f","o","r","m","a","t",":"," ","K","E","Y","W","O","R","D"," ","=",">"," ","C","A","T","E","G","O","R","Y","\n">>
\* the rule texts the user types or imports
RulesA == <<"s","e","r","v","o"," ","=",">"," ","p","e","t","r","o","l">>
RuleTextSamples == {SAMPLE_RULES, RulesA}

\* the months a previous session may have left in localStorage
SavedMonths == {<<>>, <<"2","0","2","4","-","0","2">>}

\* the category filter a previous session may have left in localStorage
SavedFilters == {<<>>, UNCATEGORISED}

\* the transactions a previous session may have left in localStorage
SavedTxns == {<<>>, categorise(csvTxns(CsvB), parseRules(SAMPLE_RULES))}

\* the category the user types at the prompt of the "+ Add new category..." flow
NewCategoryInputs == {<<"p","e","t","r","o","l">>}

-----------------------------------------------------------------------------
(* The application: its handlers.  Every listener of script.js that changes *)
(* the state is one action.  A category assignment is two: assignCategory   *)
(* opens the picker and returns, and the picker calls onChoose in a later   *)
(* task, with any other handler in between; picker holds the onChoose that  *)
(* is pending, a later assignCategory replacing it.  The answer of fetch    *)
(* and the load event come at any time.                                     *)

\* the handlers that run in one session of the page
MaxHandlers == 5

\* a handler runs: one more of the session
handlerRuns ==
  /\ session.handlers < MaxHandlers
  /\ session' = [session EXCEPT !.handlers = @ + 1]

\* script.js:595  categorise(monthFilteredTxns(), rules): the filtered array shares
\* its objects with CURRENT_TXNS, so the transactions at idx change in place
categoriseAt(txns, idx, rules) ==
  [i \in 1..Len(txns) |-> IF i \in idx THEN categorise(<<txns[i]>>, rules)[1] ELSE txns[i]]

\* script.js:499-504  the data-cat of the links renderCategoryTotals builds
categoryLinks(txns, idx) == {effectiveCategory(txns[i]) : i \in idx}

\* script.js:597-603  the renders and the save that end applyRulesAndRender
renderAndSave(rules, idx, after, monthFilter, filter, page) ==
  /\ CURRENT_RULES' = rules
  /\ CURRENT_TXNS' = after
  /\ catLinks' = categoryLinks(after, idx)
  /\ renderTransactionsTable(after, monthFilter, filter, page)
  /\ lsTxns' = after

\* script.js:592-595  categorise(monthFilteredTxns(), rules)
categoriseAndRender(rules, idx, txns, monthFilter, filter, page) ==
  renderAndSave(rules, idx, categoriseAt(txns, idx, rules), monthFilter, filter, page)

\* applyRulesAndRender, categorising with the rules parsed the time before
applyRulesAndRender_oldRules(txns, box, monthFilter, filter, page, keepPage) ==
  renderAndSave(parseRules(box), monthFilteredTxns(txns, monthFilter),
                categoriseAt(txns, monthFilteredTxns(txns, monthFilter), CURRENT_RULES),
                monthFilter, filter, IF keepPage THEN page ELSE 1)

\* script.js:580  applyRulesAndRender, from the given transactions, rules box,
\* filters and page
applyRulesAndRender(txns, box, monthFilter, filter, page, keepPage) ==
  categoriseAndRender(parseRules(box), monthFilteredTxns(txns, monthFilter), txns,
                      monthFilter, filter, IF keepPage THEN page ELSE 1)

\* script.js:317-318  the month a date contributes to the dropdown
monthKey(d) == IF d = null THEN null ELSE yyyymm(d)

\* script.js:314-320  the months rebuildMonthDropdown offers
monthOptions(txns) ==
  {monthKey(parseDateSmart(txns[i].date)) : i \in 1..Len(txns)} \ {null}

\* script.js:329  the option rebuildMonthDropdown leaves selected ("" is "All
\* months")
selectedMonth(txns, monthFilter) ==
  IF monthFilter # <<>> /\ monthFilter \in monthOptions(txns) THEN monthFilter ELSE <<>>

\* LoadCsv, adding the new transactions to those already loaded
LoadCsv_merge(rows) ==
  /\ pc = "app"
  /\ handlerRuns
  /\ UNCHANGED <<rulesBox, MONTH_FILTER, CURRENT_FILTER, picker, lsFilter, lsMonth,
                 pc, call, ret>>
  /\ monthSel' = selectedMonth(CURRENT_TXNS \o csvTxns(rows), MONTH_FILTER)
  /\ applyRulesAndRender(CURRENT_TXNS \o csvTxns(rows), rulesBox, MONTH_FILTER, CURRENT_FILTER,
                         CURRENT_PAGE, FALSE)
  /\ assigned' = [i \in 1..Len(CURRENT_TXNS') |-> null]

\* script.js:252  loadCsvText, on the rows of the file read: the onload of the
\* reader of script.js:1208
LoadCsv(rows) ==
  /\ pc = "app"
  /\ handlerRuns
  /\ UNCHANGED <<rulesBox, MONTH_FILTER, CURRENT_FILTER, picker, lsFilter, lsMonth,
                 pc, call, ret>>
  /\ monthSel' = selectedMonth(csvTxns(rows), MONTH_FILTER)
  /\ applyRulesAndRender(csvTxns(rows), rulesBox, MONTH_FILTER, CURRENT_FILTER, CURRENT_PAGE, FALSE)
  /\ assigned' = [i \in 1..Len(CURRENT_TXNS') |-> null]

\* script.js:1218  the Recalculate button
Recalculate ==
  /\ pc = "app"
  /\ handlerRuns
  /\ UNCHANGED <<rulesBox, MONTH_FILTER, CURRENT_FILTER, monthSel, picker, lsFilter,
                 lsMonth, assigned, pc, call, ret>>
  /\ applyRulesAndRender(CURRENT_TXNS, rulesBox, MONTH_FILTER, CURRENT_FILTER, CURRENT_PAGE, FALSE)

\* script.js:856-860  the onload of the reader of importRulesFromFile
ImportRules(text) ==
  /\ pc = "app"
  /\ handlerRuns
  /\ rulesBox' = text
  /\ UNCHANGED <<MONTH_FILTER, CURRENT_FILTER, monthSel, picker, lsFilter, lsMonth,
                 assigned, pc, call, ret>>
  /\ applyRulesAndRender(CURRENT_TXNS, text, MONTH_FILTER, CURRENT_FILTER, CURRENT_PAGE, FALSE)

\* script.js:1257  the month dropdown changes to option m ("" is All months)
MonthChange(m) ==
  /\ pc = "app"
  /\ handlerRuns
  /\ m # monthSel
  /\ MONTH_FILTER' = m
  /\ monthSel' = m
  /\ lsMonth' = m
  /\ UNCHANGED <<rulesBox, CURRENT_FILTER, picker, lsFilter, assigned, pc, call, ret>>
  /\ applyRulesAndRender(CURRENT_TXNS, rulesBox, m, CURRENT_FILTER, 1, FALSE)

\* script.js:1246  the clear-month button
ClearMonth ==
  /\ pc = "app"
  /\ handlerRuns
  /\ MONTH_FILTER' = <<>>
  /\ monthSel' = <<>>
  /\ lsMonth' = <<>>
  /\ UNCHANGED <<rulesBox, CURRENT_FILTER, picker, lsFilter, assigned, pc, call, ret>>
  /\ applyRulesAndRender(CURRENT_TXNS, rulesBox, <<>>, CURRENT_FILTER, 1, FALSE)

\* script.js:520  a click on the category link c
CatLinkClick(c) ==
  /\ pc = "app"
  /\ handlerRuns
  /\ c \in catLinks
  /\ CURRENT_FILTER' = c
  /\ lsFilter' = c
  /\ renderTransactionsTable(CURRENT_TXNS, MONTH_FILTER, c, 1)
  /\ UNCHANGED <<CURRENT_TXNS, CURRENT_RULES, MONTH_FILTER, rulesBox, catLinks, monthSel,
                 picker, lsTxns, lsMonth, assigned, pc, call, ret>>

\* ClearFilter, clearing the month filter as well
ClearFilter_clearsBoth ==
  /\ pc = "app"
  /\ handlerRuns
  /\ CURRENT_FILTER' = null
  /\ lsFilter' = <<>>
  /\ MONTH_FILTER' = <<>>
  /\ renderTransactionsTable(CURRENT_TXNS, <<>>, null, 1)
  /\ UNCHANGED <<CURRENT_TXNS, CURRENT_RULES, rulesBox, catLinks, monthSel,
                 picker, lsTxns, lsMonth, assigned, pc, call, ret>>

\* script.js:1235  the clear-filter button
ClearFilter ==
  /\ pc = "app"
  /\ handlerRuns
  /\ CURRENT_FILTER' = null
  /\ lsFilter' = <<>>
  /\ renderTransactionsTable(CURRENT_TXNS, MONTH_FILTER, null, 1)
  /\ UNCHANGED <<CURRENT_TXNS, CURRENT_RULES, MONTH_FILTER, rulesBox, catLinks, monthSel,
                 picker, lsTxns, lsMonth, assigned, pc, call, ret>>

\* script.js:1324-1328  the beforeunload listener
BeforeUnload ==
  /\ pc = "app"
  /\ handlerRuns
  /\ lsTxns' = CURRENT_TXNS
  /\ UNCHANGED <<CURRENT_TXNS, CURRENT_RULES, CURRENT_FILTER, MONTH_FILTER, CURRENT_PAGE,
                 rulesBox, catLinks, table, wheelPages, monthSel, picker, lsFilter,
                 lsMonth, assigned, pc, call, ret>>

ADD_NEW == <<"+"," ","A","d","d"," ","n","e","w"," ","c","a","t","e","g","o","r","y",".",".",".">>
ADD_NEW_WORDS == <<"a","d","d"," ","n","e","w"," ","c","a","t","e","g","o","r","y">>

\* script.js:983-1007  the categories assignCategory offers in the picker,
\* apart from "+ Add new category..."
pickerCategories(txns, rules) ==
  LET fromTxns  == {IF txns[i].category = undefined THEN <<>> ELSE trim(txns[i].category) :
                      i \in 1..Len(txns)}
      fromRules == {trim(rules[k].category) : k \in 1..Len(rules)}
      merged    == (fromTxns \cup fromRules) \ {<<>>}
  IN  {IF toUpperCase(c) = UNCATEGORISED THEN Uncategorised ELSE c : c \in merged}
        \cup {Uncategorised}

\* the picker while it is closed
NoPicker == [idx |-> 0, categories |-> {}]

\* script.js:981-1012  assignCategory(idx): a click on the "+" button of a row
\* shown.  idx counts from 1 here, from 0 in the code.
OpenPicker(idx) ==
  /\ pc = "app"
  /\ handlerRuns
  /\ idx \in table.rows
  /\ picker' = [idx |-> idx, categories |-> pickerCategories(CURRENT_TXNS, CURRENT_RULES)]
  /\ UNCHANGED <<CURRENT_TXNS, CURRENT_RULES, CURRENT_FILTER, MONTH_FILTER, CURRENT_PAGE,
                 rulesBox, catLinks, table, wheelPages, monthSel, lsTxns, lsFilter,
                 lsMonth, assigned, pc, call, ret>>

\* script.js:1017-1019  isAdd
isAdd(chosen) ==
  LET ch == trim(chosen)
  IN  startsWith(ch, <<"+">>) \/ indexOf(toLowerCase(ch), ADD_NEW_WORDS) # 0

\* script.js:1028  norm
normOf(chosen) == IF chosen = Uncategorised THEN <<>> ELSE toUpperCase(trim(chosen))

\* script.js:1030-1032  CURRENT_TXNS after onChoose has stored norm at idx, if
\* there is a transaction at idx
withCategory(txns, idx, norm) ==
  IF idx \in 1..Len(txns) THEN [txns EXCEPT ![idx].category = norm] ELSE txns

\* script.js:1036  deriveKeywordFromTxn(CURRENT_TXNS[idx])
keywordAt(txns, idx) ==
  IF idx \in 1..Len(txns) THEN deriveKeywordFromTxn(txns[idx]) ELSE <<>>

\* upsertAndRender, applying the rules parsed before the upsert
upsertAndRender_staleRules(txns1, norm, kw) ==
  IF norm # <<>> /\ kw # <<>> /\ addOrUpdateRuleLine(rulesBox, kw, norm).ok
  THEN /\ rulesBox' = addOrUpdateRuleLine(rulesBox, kw, norm).box
       /\ renderAndSave(parseRules(addOrUpdateRuleLine(rulesBox, kw, norm).box),
                        monthFilteredTxns(txns1, MONTH_FILTER),
                        categoriseAt(txns1, monthFilteredTxns(txns1, MONTH_FILTER),
                                     parseRules(rulesBox)),
                        MONTH_FILTER, CURRENT_FILTER, CURRENT_PAGE)
  ELSE /\ CURRENT_TXNS' = txns1
       /\ renderTransactionsTable(txns1, MONTH_FILTER, CURRENT_FILTER, CURRENT_PAGE)
       /\ UNCHANGED <<rulesBox, CURRENT_RULES, catLinks, lsTxns>>

\* script.js:1034-1061  after CURRENT_TXNS[idx].category = norm has made txns1:
\* the rule for keyword kw is upserted and the rules re-applied, or the tables
\* are only rendered again
upsertAndRender(txns1, norm, kw) ==
  IF norm # <<>> /\ kw # <<>> /\ addOrUpdateRuleLine(rulesBox, kw, norm).ok
  THEN /\ rulesBox' = addOrUpdateRuleLine(rulesBox, kw, norm).box
       /\ applyRulesAndRender(txns1, addOrUpdateRuleLine(rulesBox, kw, norm).box,
                              MONTH_FILTER, CURRENT_FILTER, CURRENT_PAGE, TRUE)
  ELSE /\ CURRENT_TXNS' = txns1
       /\ renderTransactionsTable(txns1, MONTH_FILTER, CURRENT_FILTER, CURRENT_PAGE)
       /\ UNCHANGED <<rulesBox, CURRENT_RULES, catLinks, lsTxns>>

\* script.js:1015-1062  onChoose(chosen) of the picker that assignCategory(idx)
\* opened, for a choice other than "+ Add new category..."
AssignCategory(idx, chosen) ==
  /\ pc = "app"
  /\ handlerRuns
  /\ idx # 0
  /\ picker.idx = idx
  /\ chosen \in picker.categories
  /\ ~isAdd(chosen)
  /\ picker' = NoPicker
  /\ upsertAndRender(withCategory(CURRENT_TXNS, idx, normOf(chosen)), normOf(chosen),
                     keywordAt(CURRENT_TXNS, idx))
  /\ assigned' = IF idx \in 1..Len(CURRENT_TXNS)
                 THEN [assigned EXCEPT ![idx] = normOf(chosen)] ELSE assigned
  /\ UNCHANGED <<MONTH_FILTER, CURRENT_FILTER, monthSel, lsFilter, lsMonth,
                 pc, call, ret>>

\* script.js:1079-1092  the keyword assignCategory_OLD suggests at its prompt
suggestedKeyword(desc) ==
  LET up      == toUpperCase(desc)
      nxt     == nextWordAfter(PAYPAL, desc)
      visaPos == indexOf(up, VISA_DASH)
      words   == splitWords(dropFirst(desc, visaPos - 1 + 5))
  IN  IF hasPaypalWord(up)
      THEN toUpperCase(PAYPAL \o (IF nxt # <<>> THEN <<" ">> \o nxt ELSE <<>>))
      ELSE IF visaPos # 0
      THEN toUpperCase(IF words = <<>> THEN <<>> ELSE words[1])
      ELSE IF desc = <<>> \/ isSpace(desc[1]) THEN <<>>
      ELSE toUpperCase(splitWords(desc)[1])

\* script.js:1106-1127  the rules text assignCategory_OLD leaves in the rules box
upsertRuleTextOld(text, keyword, category) ==
  LET lines   == splitLines(text)
      hit(i)  == LET line  == trim(lines[i])
                     parts == splitArrow(line)
                 IN  /\ line # <<>>
                     /\ ~startsWith(line, <<"#">>)
                     /\ Len(parts) >= 2
                     /\ toUpperCase(trim(parts[1])) = keyword
      hits    == {i \in 1..Len(lines) : hit(i)}
      newLine == keyword \o ARROW \o category
  IN  joinLines(IF hits # {} THEN [lines EXCEPT ![SetMin(hits)] = newLine]
                ELSE Append(lines, newLine))

\* script.js:1102-1133  assignCategory_OLD once both prompts are answered
upsertOldAndRender(keyword, category) ==
  /\ rulesBox' = upsertRuleTextOld(rulesBox, keyword, category)
  /\ applyRulesAndRender(CURRENT_TXNS, upsertRuleTextOld(rulesBox, keyword, category),
                         MONTH_FILTER, CURRENT_FILTER, CURRENT_PAGE, TRUE)

\* script.js:1071-1100  whether assignCategory_OLD(idx) gets as far as the upsert:
\* there is a transaction at idx, the suggested keyword, which the user accepts,
\* is not empty, and neither is the category typed
reachesUpsert(txns, idx, catInput) ==
  /\ idx \in 1..Len(txns)
  /\ suggestedKeyword(txns[idx].description) # <<>>
  /\ catInput # <<>>

\* script.js:1020-1025, 1071  onChoose("+ Add new category...") of the picker that
\* assignCategory(idx) opened: the picker is closed and assignCategory_OLD(idx)
\* runs; the user accepts the suggested keyword and types catInput as the category
AssignCategoryOld(idx, catInput) ==
  /\ pc = "app"
  /\ handlerRuns
  /\ idx # 0
  /\ picker.idx = idx
  /\ picker' = NoPicker
  /\ UNCHANGED <<MONTH_FILTER, CURRENT_FILTER, monthSel, lsFilter, lsMonth,
                 assigned, pc, call, ret>>
  /\ IF reachesUpsert(CURRENT_TXNS, idx, catInput)
     THEN upsertOldAndRender(
            toUpperCase(trim(suggestedKeyword(CURRENT_TXNS[idx].description))),
            toUpperCase(trim(catInput)))
     ELSE UNCHANGED <<CURRENT_TXNS, CURRENT_RULES, CURRENT_PAGE, rulesBox, catLinks, table,
                      wheelPages, lsTxns>>

\* script.js:719-741  the data-page of the buttons of the pager that are not disabled
pagerTargets(cur, pages) ==
  LET start0 == IF cur - 2 > 1 THEN cur - 2 ELSE 1
      end    == IF start0 + 4 < pages THEN start0 + 4 ELSE pages
      start  == IF (IF start0 < end - 4 THEN start0 ELSE end - 4) > 1
                THEN (IF start0 < end - 4 THEN start0 ELSE end - 4) ELSE 1
  IN  (start..end)
        \cup (IF cur = 1 THEN {} ELSE {1, cur - 1})
        \cup (IF cur = pages THEN {} ELSE {IF cur + 1 < pages THEN cur + 1 ELSE pages, pages})

\* script.js:748-755  a click on the page button whose data-page is page, one of
\* the buttons the last render drew (the pager is empty until the first render)
PageButtonClick(page) ==
  /\ pc = "app"
  /\ handlerRuns
  /\ table.pages # 0
  /\ page \in pagerTargets(table.cur, table.pages)
  /\ IF page = 0 \/ page = CURRENT_PAGE
     THEN UNCHANGED <<CURRENT_PAGE, table, wheelPages>>
     ELSE renderTransactionsTable(CURRENT_TXNS, MONTH_FILTER, CURRENT_FILTER, page)
  /\ UNCHANGED <<CURRENT_TXNS, CURRENT_RULES, CURRENT_FILTER, MONTH_FILTER, rulesBox, catLinks,
                 monthSel, picker, lsTxns, lsFilter, lsMonth, assigned, pc, call, ret>>

\* script.js:760-770  the page the wheel listener asks renderTransactionsTable to
\* show, pages being the value its closure holds
wheelTarget(page, deltaY, pages) ==
  IF pages <= 1 THEN page
  ELSE IF deltaY > 0 /\ page < pages THEN page + 1
  ELSE IF deltaY < 0 /\ page > 1 THEN page - 1
  ELSE page

\* script.js:759-771  a wheel event with the given deltaY on the table, once a
\* render has bound the listener
Wheel(deltaY) ==
  /\ pc = "app"
  /\ handlerRuns
  /\ wheelPages # 0
  /\ IF wheelTarget(CURRENT_PAGE, deltaY, wheelPages) = CURRENT_PAGE
     THEN UNCHANGED <<CURRENT_PAGE, table, wheelPages>>
     ELSE renderTransactionsTable(CURRENT_TXNS, MONTH_FILTER, CURRENT_FILTER,
                                  wheelTarget(CURRENT_PAGE, deltaY, wheelPages))
  /\ UNCHANGED <<CURRENT_TXNS, CURRENT_RULES, CURRENT_FILTER, MONTH_FILTER, rulesBox, catLinks,
                 monthSel, picker, lsTxns, lsFilter, lsMonth, assigned, pc, call, ret>>

\* SECTION 23, the close button.  Its state: INITIAL_RULES, RULES_CHANGED, whether
\* the load listener has run (and so the 'input' listener is bound), the message
\* showSaveStatus shows (without its leading symbol), and the content the last
\* click downloaded as rules.txt, null when it downloaded nothing.
RULES_UPDATED == <<"R","u","l","e","s"," ","f","i","l","e"," ","u","p","d","a","t","e","d">>
NO_RULE_CHANGES == <<"N","o"," ","r","u","l","e"," ","c","h","a","n","g","e","s">>

\* script.js:1339-1349  the load listener: INITIAL_RULES is what the rules box
\* holds now, and the 'input' listener is bound
WindowLoad ==
  /\ pc = "app"
  /\ ~ret.loaded
  /\ ret' = [ret EXCEPT !.INITIAL_RULES = rulesBox, !.loaded = TRUE]
  /\ UNCHANGED <<appVars, pc, call>>

\* script.js:1345  an input event on the rules box, which leaves text in it (the
\* text it held, when the edit replaces a selection by the same text): the
\* 'input' listener, if it is bound, runs
TypeRules(text) ==
  /\ pc = "app"
  /\ handlerRuns
  /\ rulesBox' = text
  /\ ret' = IF ret.loaded THEN [ret EXCEPT !.RULES_CHANGED = (text # ret.INITIAL_RULES)]
            ELSE ret
  /\ UNCHANGED <<CURRENT_TXNS, CURRENT_RULES, CURRENT_FILTER, MONTH_FILTER, CURRENT_PAGE,
                 catLinks, table, wheelPages, monthSel, picker, lsTxns, lsFilter,
                 lsMonth, assigned, pc, call>>

\* script.js:1391  handleCloseApp on the rules box content and the section's state
handleCloseApp(box, st) ==
  IF st.RULES_CHANGED /\ box # st.INITIAL_RULES
  THEN [st EXCEPT !.INITIAL_RULES = box, !.RULES_CHANGED = FALSE,
                  !.saveStatus = RULES_UPDATED, !.downloaded = box]
  ELSE [st EXCEPT !.saveStatus = NO_RULE_CHANGES, !.downloaded = null]

\* script.js:1418  a click on the close button
CloseApp ==
  /\ pc = "app"
  /\ handlerRuns
  /\ ret' = handleCloseApp(rulesBox, ret)
  /\ UNCHANGED <<CURRENT_TXNS, CURRENT_RULES, CURRENT_FILTER, MONTH_FILTER, CURRENT_PAGE,
                 rulesBox, catLinks, table, wheelPages, monthSel, picker, lsTxns, lsFilter,
                 lsMonth, assigned, pc, call>>

\* script.js:1302  savedFilter && savedFilter.trim() ? savedFilter.toUpperCase() : null
restoredFilter(saved) == IF trim(saved) # <<>> THEN toUpperCase(saved) ELSE null

\* script.js:1287-1314  the DOMContentLoaded listener once fetch('rules.txt') is
\* answered with text (SAMPLE_RULES when the fetch fails)
RulesFetched(text) ==
  /\ pc = "app"
  /\ session.fetching
  /\ session' = [session EXCEPT !.fetching = FALSE]
  /\ rulesBox' = text
  /\ CURRENT_FILTER' = restoredFilter(lsFilter)
  /\ MONTH_FILTER' = lsMonth
  /\ CURRENT_PAGE' = 1
  /\ UNCHANGED <<CURRENT_TXNS, CURRENT_RULES, catLinks, table, wheelPages, monthSel, picker,
                 lsTxns, lsFilter, lsMonth, assigned, pc, call, ret>>

\* the table element before anything is rendered into it: no row, no pager
NoTable == [rows |-> {}, cur |-> 1, pages |-> 0]

\* script.js:49-53, 1273-1288  the application once the DOMContentLoaded listeners
\* have run, the first to its end when localStorage holds rules (restored into
\* the rules box, with the saved filters), to its await of fetch('rules.txt')
\* when it holds none (the box, which index.html leaves empty, and the filters
\* are still as declared).  localStorage holds what an earlier session left.
DOMContentLoaded ==
  /\ CURRENT_TXNS = <<>>
  /\ CURRENT_RULES = <<>>
  /\ CURRENT_PAGE = 1
  /\ catLinks = {}
  /\ table = NoTable
  /\ wheelPages = 0
  /\ monthSel = <<>>
  /\ picker = NoPicker
  /\ assigned = <<>>
  /\ lsTxns \in SavedTxns
  /\ lsFilter \in SavedFilters
  /\ lsMonth \in SavedMonths
  /\ session \in {[fetching |-> f, handlers |-> 0] : f \in BOOLEAN}
  /\ rulesBox \in IF session.fetching THEN {<<>>} ELSE RuleTextSamples
  /\ CURRENT_FILTER = IF session.fetching THEN null ELSE restoredFilter(lsFilter)
  /\ MONTH_FILTER = IF session.fetching THEN <<>> ELSE lsMonth

\* script.js:1273-1288, 1335-1336  SECTION 23's variables as declared, 'load'
\* still to come
Init ==
  /\ DOMContentLoaded
  /\ pc = "app"
  /\ call = <<>>
  /\ ret = [INITIAL_RULES |-> <<>>, RULES_CHANGED |-> FALSE, loaded |-> FALSE,
            saveStatus |-> <<>>, downloaded |-> null]

Next ==
  \/ \E rows \in CsvSamples : LoadCsv(rows)
  \/ Recalculate
  \/ \E text \in RuleTextSamples \cup {rulesBox} : TypeRules(text)
  \/ \E text \in RuleTextSamples : ImportRules(text)
  \/ \E m \in monthOptions(CURRENT_TXNS) \cup {<<>>} : MonthChange(m)
  \/ ClearMonth
  \/ \E c \in catLinks : CatLinkClick(c)
  \/ ClearFilter
  \/ \E i \in table.rows : OpenPicker(i)
  \/ \E chosen \in picker.categories : AssignCategory(picker.idx, chosen)
  \/ \E c \in NewCategoryInputs : AssignCategoryOld(picker.idx, c)
  \/ \E page \in pagerTargets(table.cur, table.pages) : PageButtonClick(page)
  \/ \E deltaY \in {-100, 100} : Wheel(deltaY)
  \/ CloseApp
  \/ \E text \in RuleTextSamples : RulesFetched(text)
  \/ WindowLoad
  \/ BeforeUnload

Spec == Init /\ [][Next]_vars

\* C18: a click on the close button downloads the rules and reports 'Rules file
\* updated' whenever the content of the rules box differs from INITIAL_RULES,
\* however it came to differ (typing, an imported rules file, a rule added by a
\* category assignment), and reports 'No rule changes' only when the content
\* equals INITIAL_RULES; after a save INITIAL_RULES is the current content, so a
\* close that follows at once does not save again.
C18_CloseSavesWhatDiffers ==
  [][CloseApp =>
       IF rulesBox # ret.INITIAL_RULES
       THEN /\ ret'.downloaded = rulesBox
            /\ ret'.saveStatus = RULES_UPDATED
            /\ ret'.INITIAL_RULES = rulesBox
       ELSE /\ ret'.downloaded = null
            /\ ret'.saveStatus = NO_RULE_CHANGES]_vars

-----------------------------------------------------------------------------
(* Single function calls: the application idle, one call made and returned *)

\* the application's variables while one function is called on its own
Idle ==
  /\ CURRENT_TXNS = <<>>
  /\ CURRENT_RULES = <<>>
  /\ CURRENT_FILTER = null
  /\ MONTH_FILTER = <<>>
  /\ CURRENT_PAGE = 1
  /\ rulesBox = SAMPLE_RULES
  /\ catLinks = {}
  /\ table = NoTable
  /\ wheelPages = 0
  /\ monthSel = <<>>
  /\ picker = NoPicker
  /\ session = [fetching |-> FALSE, handlers |-> 0]
  /\ lsTxns = <<>>
  /\ lsFilter = <<>>
  /\ lsMonth = <<>>
  /\ assigned = <<>>

\* the sequences over S of length at most n
SeqsUpTo(S, n) == UNION {[1..k -> S] : k \in 0..n}

-----------------------------------------------------------------------------
(* categorise(txns, rules), on rules that parseRules made                   *)

MaxRules == 2
MaxTxns == 2

RuleLineSamples == {<<"s","e","r","v","o"," ","=",">"," ","P","e","t","r","o","l">>, <<"s","h","e","l","l"," ","=",">"," ","f","u","e","l">>,
                    <<"s","h","e","l","l"," ","s","e","r","v","o"," ","=",">"," ","P","E","T","R","O","L">>, <<"c","o","l","e","s"," ","=",">"," ","f","o","o","d">>}
DescriptionSamples == {<<"S","H","E","L","L"," ","S","E","R","V","O"," ","1","2">>, <<"C","o","l","e","s",".","S","e","r","v","o">>}
AmountSamples == {Dec(150, 2), Dec(-2, 0), Dec(201, 2), Dec(-45, 0)}
TxnSamples == {[date |-> <<"0","1","/","0","2","/","2","0","2","4">>, amount |-> a, description |-> d, category |-> undefined] :
                 a \in AmountSamples, d \in DescriptionSamples}

CategoriseCalls ==
  {[fn |-> "categorise", txns |-> txns, rules |-> parseRules(joinLines(lines))] :
     txns \in SeqsUpTo(TxnSamples, MaxTxns), lines \in SeqsUpTo(RuleLineSamples, MaxRules)}

InitCategorise == Idle /\ pc = "call" /\ call \in CategoriseCalls /\ ret = <<>>

\* script.js:427  categorise(txns, rules) runs; ret is txns afterwards
CallCategorise ==
  /\ pc = "call"
  /\ call.fn = "categorise"
  /\ ret' = categorise(call.txns, call.rules)
  /\ pc' = "done"
  /\ UNCHANGED <<appVars, call>>

SpecCategorise == InitCategorise /\ [][CallCategorise]_vars

\* C1: categorise stores, on every transaction, the category of the first rule in
\* list order whose keyword matches the lower-cased description (COFFEE when the
\* PETROL override applies to that category), and UNCATEGORISED when no rule
\* matches.
C1_FirstMatchWins ==
  (pc = "done" /\ call.fn = "categorise") =>
    \A i \in 1..Len(call.txns) :
      LET hits == {k \in 1..Len(call.rules) :
                     matchesKeyword(toLowerCase(call.txns[i].description), call.rules[k].keyword)}
      IN  /\ Len(ret) = Len(call.txns)
          /\ IF hits = {} THEN ret[i].category = UNCATEGORISED
             ELSE \/ ret[i].category = call.rules[SetMin(hits)].category
                  \/ /\ call.rules[SetMin(hits)].category = PETROL
                     /\ ret[i].category = COFFEE

\* two rules with different categories match a transaction, and the first one's
\* category is stored
C1_Witness ==
  /\ pc = "done" /\ call.fn = "categorise"
  /\ \E i \in 1..Len(call.txns) : \E k1, k2 \in 1..Len(call.rules) :
       /\ k1 < k2
       /\ matchesKeyword(toLowerCase(call.txns[i].description), call.rules[k1].keyword)
       /\ matchesKeyword(toLowerCase(call.txns[i].description), call.rules[k2].keyword)
       /\ call.rules[k1].category # call.rules[k2].category
       /\ call.rules[k1].category # PETROL
       /\ ret[i].category = call.rules[k1].category

\* C2: when the first matching rule's category is PETROL, compared without regard
\* to case, and the amount is at most 2 in absolute value, the stored category is
\* COFFEE, whatever the amount's sign; in every other case with a match it is
\* exactly the first matching rule's category.
C2_OverrideLaw ==
  (pc = "done" /\ call.fn = "categorise") =>
    \A i \in 1..Len(call.txns) :
      LET hits  == {k \in 1..Len(call.rules) :
                      matchesKeyword(toLowerCase(call.txns[i].description), call.rules[k].keyword)}
          amt   == call.txns[i].amount
          small == amt.m <= 2 * Pow10(amt.e) /\ -amt.m <= 2 * Pow10(amt.e)
      IN  hits # {} =>
            ret[i].category =
              IF toUpperCase(call.rules[SetMin(hits)].category) = PETROL /\ small
              THEN COFFEE
              ELSE call.rules[SetMin(hits)].category

\* a purchase of -2 whose first match is PETROL is stored as COFFEE, and one of
\* 2.01 keeps PETROL
C2_Witness ==
  /\ pc = "done" /\ call.fn = "categorise"
  /\ \E i, j \in 1..Len(call.txns) :
       /\ call.txns[i].amount = Dec(-2, 0)
       /\ ret[i].category = COFFEE
       /\ call.txns[j].amount = Dec(201, 2)
       /\ ret[j].category = PETROL
       /\ call.txns[i].description = call.txns[j].description

-----------------------------------------------------------------------------
(* matchesKeyword(descLower, keywordLower)                                  *)

MaxPieces == 3

\* descriptions are put together from these pieces
DescPieces == {<<"C","A","F","E">>, <<"c","a","f","e">>, <<"e">>, <<".">>, <<" ">>, <<"C","O","M">>}
KeywordSamples == {<<"c","a","f","e">>, <<"c","a","f","e",".","c","o","m">>, <<"e"," ","c","a","f","e">>}

MatchCalls ==
  {[fn |-> "matchesKeyword", descLower |-> Flatten(ps), keywordLower |-> kw] :
     ps \in SeqsUpTo(DescPieces, MaxPieces), kw \in KeywordSamples}

InitMatch == Idle /\ pc = "call" /\ call \in MatchCalls /\ ret = <<>>

\* script.js:393  matchesKeyword(descLower, keywordLower) runs; ret is its result
CallMatch ==
  /\ pc = "call"
  /\ call.fn = "matchesKeyword"
  /\ ret' = matchesKeyword(call.descLower, call.keywordLower)
  /\ pc' = "done"
  /\ UNCHANGED <<appVars, call>>

SpecMatch == InitMatch /\ [][CallMatch]_vars

\* C5 (as amended): matchesKeyword with keyword "cafe" is true exactly when the
\* description holds "cafe", in any case, with on each side the string's edge or
\* a character outside [A-Za-z0-9&._]; so it is false for "CAFE.COM", where '.'
\* is a word character and no boundary follows "CAFE", and false for "ecafe";
\* the keyword "cafe.com" does match "CAFE.COM".
C5_BoundaryAmended ==
  (pc = "done" /\ call.fn = "matchesKeyword") =>
    LET d == call.descLower
    IN  /\ call.keywordLower = <<"c","a","f","e">> =>
             ret = \E i \in 1..(Len(d) - 3) :
                     /\ toLowerCase(SubSeq(d, i, i + 3)) = <<"c","a","f","e">>
                     /\ (i = 1 \/ ~isWordChar(d[i - 1]))
                     /\ (i + 3 = Len(d) \/ ~isWordChar(d[i + 4]))
        /\ (call.keywordLower = <<"c","a","f","e">> /\ d \in {<<"C","A","F","E",".","C","O","M">>, <<"e","c","a","f","e">>}) => ret = FALSE
        /\ (call.keywordLower = <<"c","a","f","e",".","c","o","m">> /\ d = <<"C","A","F","E",".","C","O","M">>) => ret = TRUE

\* the call matchesKeyword("CAFE.COM", "cafe") has returned false
C5_Witness ==
  /\ pc = "done" /\ call.fn = "matchesKeyword"
  /\ call.keywordLower = <<"c","a","f","e">>
  /\ call.descLower = <<"C","A","F","E",".","C","O","M">>
  /\ ret = FALSE

\* C5 as claimed: matchesKeyword with keyword "cafe" returns true for "CAFE.COM"
\* and false for "ecafe".
C5_BoundaryClaimed ==
  (pc = "done" /\ call.fn = "matchesKeyword" /\ call.keywordLower = <<"c","a","f","e">>) =>
    /\ call.descLower = <<"C","A","F","E",".","C","O","M">> => ret = TRUE
    /\ call.descLower = <<"e","c","a","f","e">> => ret = FALSE

-----------------------------------------------------------------------------
(* loadCsvText's row loop, on the rows Papa.parse hands it                    *)

MaxRows == 2

RowSamples ==
  { HeaderRow,
    Row(10, <<"0","1","/","0","2","/","2","0","2","4">>, <<"$","1",",","2","3","4",".","5","6">>, <<"C","O","L","E","S"," ">>),
    Row(9,  <<"0","2","/","0","2","/","2","0","2","4">>, <<"8">>, <<>>),
    Row(11, <<"0","3","/","0","2","/","2","0","2","4">>, <<"-","5">>, <<"R","E","F","U","N","D">>),
    Row(10, <<"0","4","/","0","2","/","2","0","2","4">>, <<"0",".","0","0">>, <<"F","E","E">>),
    Row(10, <<>>, <<"-","6">>, <<"N","O"," ","D","A","T","E">>),
    Row(10, <<" ">>, <<"7">>, <<>>),
    Row(11, <<>>, <<"7">>, <<" "," ">>),
    Row(10, <<>>, <<"9">>, <<>>),
    Row(10, <<"0","5","/","0","2","/","2","0","2","4">>, <<"1","-","2">>, <<"B","A","D"," ","A","M","O","U","N","T">>) }

ImportCalls == {[fn |-> "loadCsvText", rows |-> rows] : rows \in SeqsUpTo(RowSamples, MaxRows)}

InitImport == Idle /\ pc = "call" /\ call \in ImportCalls /\ ret = <<>>

\* script.js:259-283  the row loop of loadCsvText runs; ret is its txns array
CallImport ==
  /\ pc = "call"
  /\ call.fn = "loadCsvText"
  /\ ret' = csvTxns(call.rows)
  /\ pc' = "done"
  /\ UNCHANGED <<appVars, call>>

SpecImport == InitImport /\ [][CallImport]_vars

\* C6 (as amended): loadCsvText includes a row as a transaction exactly when the
\* row has at least 10 cells, its amount cell parses to a finite nonzero number,
\* and its date cell is non-empty or its description cell is non-empty once
\* trimmed; the included rows keep their order, each giving its date cell as it
\* is, its parsed amount and its trimmed description.
C6_ImportFilterAmended ==
  (pc = "done" /\ call.fn = "loadCsvText") =>
    LET rows == call.rows
        inc  == {i \in 1..Len(rows) :
                   /\ Len(rows[i]) >= 10
                   /\ parseAmount(rows[i][COL_DEBIT + 1]) # NaN
                   /\ parseAmount(rows[i][COL_DEBIT + 1]) # Zero
                   /\ (rows[i][COL_DATE + 1] # <<>> \/ trim(rows[i][COL_LONGDESC + 1]) # <<>>)}
        nth(k) == CHOOSE i \in inc : Cardinality({j \in inc : j <= i}) = k
    IN  /\ Len(ret) = Cardinality(inc)
        /\ \A k \in 1..Len(ret) :
             /\ ret[k].date = rows[nth(k)][COL_DATE + 1]
             /\ ret[k].amount = parseAmount(rows[nth(k)][COL_DEBIT + 1])
             /\ ret[k].description = trim(rows[nth(k)][COL_LONGDESC + 1])

\* a row with an empty date and a description of blanks only was dropped, next
\* to a row that was kept with the amount 1234.56
C6_Witness ==
  /\ pc = "done" /\ call.fn = "loadCsvText"
  /\ Len(call.rows) = 2
  /\ call.rows[1] = Row(11, <<>>, <<"7">>, <<" "," ">>)
  /\ call.rows[2] = Row(10, <<"0","1","/","0","2","/","2","0","2","4">>, <<"$","1",",","2","3","4",".","5","6">>, <<"C","O","L","E","S"," ">>)
  /\ Len(ret) = 1
  /\ ret[1].amount = Dec(123456, 2)

\* C6 as claimed: a row is included if and only if it has at least 10 cells, its
\* amount cell parses to a finite nonzero number, and its date cell or its
\* description cell is non-empty; the included rows keep their order.
C6_ImportFilterClaimed ==
  (pc = "done" /\ call.fn = "loadCsvText") =>
    LET rows == call.rows
        inc  == {i \in 1..Len(rows) :
                   /\ Len(rows[i]) >= 10
                   /\ parseAmount(rows[i][COL_DEBIT + 1]) # NaN
                   /\ parseAmount(rows[i][COL_DEBIT + 1]) # Zero
                   /\ (rows[i][COL_DATE + 1] # <<>> \/ rows[i][COL_LONGDESC + 1] # <<>>)}
        nth(k) == CHOOSE i \in inc : Cardinality({j \in inc : j <= i}) = k
    IN  /\ Len(ret) = Cardinality(inc)
        /\ \A k \in 1..Len(ret) : ret[k].date = rows[nth(k)][COL_DATE + 1]

\* C7: when the amount cell of the first row does not parse to a finite nonzero
\* number, the first row gives no transaction and the import is that of the rows
\* after it; when it does, the first row is treated like every other row.
C7_HeaderDetection ==
  (pc = "done" /\ call.fn = "loadCsvText" /\ call.rows # <<>>) =>
    LET first  == call.rows[1]
        amount == parseAmount(cellAt(first, COL_DEBIT))
    IN  IF amount = NaN \/ amount = Zero
        THEN ret = csvTxns(Tail(call.rows))
        ELSE ret = rowTxns(first) \o csvTxns(Tail(call.rows))

\* the header row came first and was skipped, and the data row after it was kept
C7_Witness ==
  /\ pc = "done" /\ call.fn = "loadCsvText"
  /\ Len(call.rows) = 2
  /\ call.rows[1] = HeaderRow
  /\ Len(ret) = 1
  /\ ret[1].description = <<"R","E","F","U","N","D">>

-----------------------------------------------------------------------------
(* parseRules(text) and addOrUpdateRuleLine(keywordUpper, categoryUpper)    *)

MaxLines == 2

\* rule texts are put together from these lines
TextLineSamples == {<<"s","e","r","v","o"," ","=",">"," ","P","e","t","r","o","l">>, <<" ","#"," ","n","o","t","e">>, <<>>, <<"n","o"," ","a","r","r","o","w">>, <<"=",">"," ","F","O","O","D">>,
                    <<"c","o","l","e","s"," ","=",">">>, <<"a"," ","=",">"," ","b"," ","=",">"," ","c">>, <<"S","H","E","L","L","=",">","f","u","e","l","\r">>}
RuleTexts == {joinLines(lines) : lines \in SeqsUpTo(TextLineSamples, MaxLines)}

ParseRulesCalls == {[fn |-> "parseRules", text |-> text] : text \in RuleTexts}

InitParseRules == Idle /\ pc = "call" /\ call \in ParseRulesCalls /\ ret = <<>>

\* script.js:359  parseRules(text) runs; ret is its result
CallParseRules ==
  /\ pc = "call"
  /\ call.fn = "parseRules"
  /\ ret' = parseRules(call.text)
  /\ pc' = "done"
  /\ UNCHANGED <<appVars, call>>

SpecParseRules == InitParseRules /\ [][CallParseRules]_vars

\* C9: parseRules returns one rule for each line that, once trimmed, is not
\* blank, does not start with '#', holds "=>", and has a non-empty keyword before
\* the first "=>" and a non-empty category between the first and the second
\* "=>"; the rules come in the order of their lines, the keyword lower-cased and
\* the category upper-cased, both trimmed; every other line gives no rule.
C9_ParseRules ==
  (pc = "done" /\ call.fn = "parseRules") =>
    LET lines    == splitLines(call.text)
        arrow(t) == indexOf(t, <<"=", ">">>)
        rest(t)  == SubSeq(t, arrow(t) + 2, Len(t))
        kw(t)    == toLowerCase(trim(SubSeq(t, 1, arrow(t) - 1)))
        cat(t)   == toUpperCase(trim(IF arrow(rest(t)) = 0 THEN rest(t)
                                     ELSE SubSeq(rest(t), 1, arrow(rest(t)) - 1)))
        good(t)  == /\ t # <<>> /\ t[1] # "#" /\ arrow(t) # 0
                    /\ kw(t) # <<>> /\ cat(t) # <<>>
        inc      == {i \in 1..Len(lines) : good(trim(lines[i]))}
        nth(k)   == CHOOSE i \in inc : Cardinality({j \in inc : j <= i}) = k
    IN  /\ Len(ret) = Cardinality(inc)
        /\ \A k \in 1..Len(ret) :
             /\ ret[k].keyword = kw(trim(lines[nth(k)]))
             /\ ret[k].category = cat(trim(lines[nth(k)]))
             /\ ret[k].keyword # <<>> /\ ret[k].category # <<>>

\* a text of two rule lines, the first with a second "=>", was parsed: two rules
\* in the lines' order, the first with the category between the two arrows
C9_Witness ==
  /\ pc = "done" /\ call.fn = "parseRules"
  /\ call.text = <<"a"," ","=",">"," ","b"," ","=",">"," ","c","\n","S","H","E","L","L","=",">","f","u","e","l","\r">>
  /\ ret = << [keyword |-> <<"a">>, category |-> <<"B">>],
              [keyword |-> <<"s","h","e","l","l">>, category |-> <<"F","U","E","L">>] >>

UpsertKeywords == {<<"S","H","E","L","L">>, <<"A">>, <<>>}
UpsertCategories == {<<"F","O","O","D">>, <<>>}

UpsertCalls ==
  {[fn |-> "addOrUpdateRuleLine", box |-> text, keywordUpper |-> k, categoryUpper |-> c] :
     text \in RuleTexts, k \in UpsertKeywords, c \in UpsertCategories}

InitUpsert == Idle /\ pc = "call" /\ call \in UpsertCalls /\ ret = <<>>

\* script.js:934  addOrUpdateRuleLine(keywordUpper, categoryUpper) runs on the rules
\* box; ret is its result and the box afterwards
CallUpsert ==
  /\ pc = "call"
  /\ call.fn = "addOrUpdateRuleLine"
  /\ ret' = addOrUpdateRuleLine(call.box, call.keywordUpper, call.categoryUpper)
  /\ pc' = "done"
  /\ UNCHANGED <<appVars, call>>

SpecUpsert == InitUpsert /\ [][CallUpsert]_vars

\* C10: addOrUpdateRuleLine with a non-empty keyword and category returns true and
\* replaces the first line that is not blank, not a comment, holds "=>" and whose
\* keyword equals the given one without regard to case by "KEYWORD => CATEGORY",
\* or appends that line when there is none; every other line stays as it was and
\* where it was, the lines joined by "\n".
C10_UpsertFrame ==
  (pc = "done" /\ call.fn = "addOrUpdateRuleLine"
     /\ call.keywordUpper # <<>> /\ call.categoryUpper # <<>>) =>
    LET before   == splitLines(call.box)
        arrow(t) == indexOf(t, <<"=", ">">>)
        hit(t)   == /\ t # <<>> /\ t[1] # "#" /\ arrow(t) # 0
                    /\ toLowerCase(trim(SubSeq(t, 1, arrow(t) - 1)))
                         = toLowerCase(call.keywordUpper)
        hits     == {i \in 1..Len(before) : hit(trim(before[i]))}
        newLine  == call.keywordUpper \o <<" ", "=", ">", " ">> \o call.categoryUpper
    IN  /\ ret.ok = TRUE
        /\ ret.box = joinLines(IF hits = {} THEN before \o <<newLine>>
                               ELSE [i \in 1..Len(before) |->
                                       IF i = SetMin(hits) THEN newLine ELSE before[i]])

\* the second line's keyword was the given one in another case: that line was
\* replaced and the comment before it kept
C10_Witness ==
  /\ pc = "done" /\ call.fn = "addOrUpdateRuleLine"
  /\ call.box = <<" ","#"," ","n","o","t","e","\n","S","H","E","L","L","=",">","f","u","e","l","\r">>
  /\ call.keywordUpper = <<"S","H","E","L","L">>
  /\ ret.box = <<" ","#"," ","n","o","t","e","\n","S","H","E","L","L"," ","=",">"," ","F","O","O","D">>

-----------------------------------------------------------------------------
(* The application: assignment, re-application and import                   *)

\* C3 (as amended): a category the user assigned in the picker is stored only
\* until rules are next applied over the transaction, the application that the
\* assignment itself triggers included: a transaction inside the month filter
\* that the user assigned a category to stores either that value or the category
\* the rules in force derive for it (first matching rule, PETROL override,
\* UNCATEGORISED when none matches).
C3_AssignedOrRederived ==
  \A i \in monthFilteredTxns(CURRENT_TXNS, MONTH_FILTER) :
    assigned[i] # null =>
      \/ CURRENT_TXNS[i].category = assigned[i]
      \/ CURRENT_TXNS[i].category = categoryFor(CURRENT_TXNS[i], CURRENT_RULES)

\* the user assigned a category to a transaction, rules were applied, and the
\* transaction stores another category, the one the rules derive
C3_Witness ==
  \E i \in monthFilteredTxns(CURRENT_TXNS, MONTH_FILTER) :
    /\ assigned[i] # null
    /\ assigned[i] # <<>>
    /\ CURRENT_TXNS[i].category # assigned[i]
    /\ CURRENT_TXNS[i].category = categoryFor(CURRENT_TXNS[i], CURRENT_RULES)

\* C3 as claimed: from the assignment until the next import, the transaction's
\* stored category is the value the user assigned.
C3_AssignedPersists ==
  \A i \in 1..Len(CURRENT_TXNS) :
    assigned[i] # null => CURRENT_TXNS[i].category = assigned[i]

\* C4: in every reachable state a transaction that no rule matched has an empty
\* or absent stored category: UNCATEGORISED is a label of display and
\* aggregation that categorisation never writes into the stored category.
C4_SentinelNeverStored ==
  \A i \in 1..Len(CURRENT_TXNS) :
    (\A k \in 1..Len(CURRENT_RULES) :
       ~matchesKeyword(toLowerCase(CURRENT_TXNS[i].description), CURRENT_RULES[k].keyword))
    => CURRENT_TXNS[i].category \in {undefined, <<>>}

\* C8: an import replaces the transactions: after loadCsvText the transactions
\* are exactly those its row loop built from the new rows, in order; each has no
\* category yet or the one the rules derive for it, and no assignment made
\* before the import is left.
C8_ImportReplaces ==
  [][\A rows \in CsvSamples :
       LoadCsv(rows) =>
         /\ Len(CURRENT_TXNS') = Len(csvTxns(rows))
         /\ \A i \in 1..Len(CURRENT_TXNS') :
              /\ CURRENT_TXNS'[i].date = csvTxns(rows)[i].date
              /\ CURRENT_TXNS'[i].amount = csvTxns(rows)[i].amount
              /\ CURRENT_TXNS'[i].description = csvTxns(rows)[i].description
              /\ CURRENT_TXNS'[i].category \in
                   {undefined, categoryFor(csvTxns(rows)[i], parseRules(rulesBox))}
              /\ assigned'[i] = null]_vars

\* the second file was imported after the user had assigned a category to the
\* COLES transaction of the first: only the second file's transaction is there
C8_Witness ==
  /\ Len(CURRENT_TXNS) = 1
  /\ CURRENT_TXNS[1].description = <<"s","h","e","l","l">>
  /\ indexOf(rulesBox, <<"C","O","L","E","S"," ","=",">"," ">>) # 0
  /\ assigned = <<null>>


\* date, amount and description of every transaction stay as they are
sameTxnData ==
  /\ Len(CURRENT_TXNS') = Len(CURRENT_TXNS)
  /\ \A i \in 1..Len(CURRENT_TXNS) :
       /\ CURRENT_TXNS'[i].date = CURRENT_TXNS[i].date
       /\ CURRENT_TXNS'[i].amount = CURRENT_TXNS[i].amount
       /\ CURRENT_TXNS'[i].description = CURRENT_TXNS[i].description

\* what a handler of the category filter leaves alone
categoryFilterFrame == MONTH_FILTER' = MONTH_FILTER /\ CURRENT_TXNS' = CURRENT_TXNS

\* what a handler of the month filter leaves alone, and what it stores when the
\* month becomes m
monthFilterFrame(m) ==
  /\ CURRENT_FILTER' = CURRENT_FILTER
  /\ sameTxnData
  /\ \A i \in 1..Len(CURRENT_TXNS) :
       CURRENT_TXNS'[i].category =
         IF i \in monthFilteredTxns(CURRENT_TXNS, m)
         THEN categoryFor(CURRENT_TXNS[i], parseRules(rulesBox))
         ELSE CURRENT_TXNS[i].category

\* C17 (amended): the category filter and the month filter are independent:
\* setting or clearing either (category link, clear-filter button, month dropdown,
\* clear-month button) leaves the other filter's value and every transaction's
\* date, amount and description unchanged. The category link and the clear-filter
\* button leave every stored category unchanged too; the month dropdown and the
\* clear-month button re-apply the rules of the rules box to the transactions
\* inside the new month filter, whose stored categories become the ones those
\* rules derive, and leave the stored category of every other transaction
\* unchanged.
C17_FilterFrame ==
  [][/\ \A c \in catLinks : CatLinkClick(c) => categoryFilterFrame
     /\ ClearFilter => categoryFilterFrame
     /\ MonthChange(MONTH_FILTER') => monthFilterFrame(MONTH_FILTER')
     /\ ClearMonth => monthFilterFrame(<<>>)]_vars

\* both filters are set, the transaction inside the month carries the category
\* the rules derive and the one outside it has never been categorised
C17_Witness ==
  /\ CURRENT_FILTER = COFFEE
  /\ MONTH_FILTER = <<"2","0","2","4","-","0","2">>
  /\ Len(CURRENT_TXNS) = 2
  /\ CURRENT_TXNS[1].category = COFFEE
  /\ CURRENT_TXNS[2].category = undefined

\* C17 as claimed: setting or clearing either filter leaves the other filter's
\* value unchanged and every transaction's date, amount, description and stored
\* category unchanged.
C17_FiltersNonMutating ==
  [][/\ \A c \in catLinks : CatLinkClick(c) => categoryFilterFrame
     /\ ClearFilter => categoryFilterFrame
     /\ MonthChange(MONTH_FILTER') => (CURRENT_FILTER' = CURRENT_FILTER /\ CURRENT_TXNS' = CURRENT_TXNS)
     /\ ClearMonth => (CURRENT_FILTER' = CURRENT_FILTER /\ CURRENT_TXNS' = CURRENT_TXNS)]_vars


\* a handler that ends in applyRulesAndRender() runs: an import of a CSV file or
\* of a rules file, Recalculate, a change of the month dropdown, clear-month
appliesRules ==
  /\ picker' = picker
  /\ CURRENT_FILTER' = CURRENT_FILTER
  /\ lsTxns' = CURRENT_TXNS'
  /\ \/ Recalculate
     \/ ImportRules(rulesBox')
     \/ MonthChange(MONTH_FILTER')
     \/ ClearMonth
     \/ \E rows \in CsvSamples : LoadCsv(rows)

\* C19 (amended): after applyRulesAndRender completes, every transaction of
\* CURRENT_TXNS inside the currently selected month (every transaction when no
\* month is selected) carries the category categorise assigns it under the rule
\* text currently in the rules box (CURRENT_RULES being its parse), for any
\* sequence of imports, rule edits, month-filter changes and recalculations.
C19_AppliedInsideMonth ==
  [][appliesRules =>
       /\ CURRENT_RULES' = parseRules(rulesBox')
       /\ \A i \in monthFilteredTxns(CURRENT_TXNS', MONTH_FILTER') :
            CURRENT_TXNS'[i].category = categoryFor(CURRENT_TXNS'[i], CURRENT_RULES')]_vars

\* the rules have been applied under the month filter 2024-02: the transaction of
\* February carries the derived category, the undated one none
C19_Witness ==
  /\ CURRENT_RULES = parseRules(rulesBox)
  /\ lsTxns = CURRENT_TXNS
  /\ MONTH_FILTER = <<"2","0","2","4","-","0","2">>
  /\ CURRENT_RULES # <<>>
  /\ Len(CURRENT_TXNS) = 2
  /\ CURRENT_TXNS[1].category = categoryFor(CURRENT_TXNS[1], CURRENT_RULES)
  /\ CURRENT_TXNS[2].category = undefined

\* C19 as claimed: after applyRulesAndRender completes, every transaction of
\* CURRENT_TXNS, not only those of the selected month, carries the category
\* categorise assigns it under the rule text currently in the rules box.
C19_AppliedToAll ==
  [][appliesRules =>
       /\ CURRENT_RULES' = parseRules(rulesBox')
       /\ \A i \in 1..Len(CURRENT_TXNS') :
            CURRENT_TXNS'[i].category = categoryFor(CURRENT_TXNS'[i], CURRENT_RULES')]_vars

-----------------------------------------------------------------------------
(* addOrUpdateRuleLine applied again and again with the same keyword and category *)

MaxApplications == 3

\* descriptions whose derived keywords are upserted
UpsertDescriptions == {<<"S","H","E","L","L"," ","C","O","L","E","S">>, <<"P","A","Y","P","A","L"," ","*","U","B","E","R">>, <<"V","I","S","A","-","#","1","2"," ","S","H","O","P">>}

\* the value of a textarea holds no carriage return
BoxTexts == {text \in RuleTexts : \A i \in 1..Len(text) : text[i] # "\r"}

RepeatCalls ==
  {[fn |-> "upsertRepeat", box |-> text,
    keywordUpper |-> deriveKeywordFromTxn([description |-> d]), categoryUpper |-> c] :
     text \in BoxTexts, d \in UpsertDescriptions, c \in UpsertCategories \ {<<>>}}

InitRepeat == Idle /\ pc = "call" /\ call \in RepeatCalls /\ ret = <<>>

\* script.js:934  one more addOrUpdateRuleLine(keywordUpper, categoryUpper) on the
\* rules box the last one left; ret lists the box after each application
UpsertAgain ==
  /\ pc = "call"
  /\ call.fn = "upsertRepeat"
  /\ Len(ret) < MaxApplications
  /\ ret' = Append(ret, addOrUpdateRuleLine(IF ret = <<>> THEN call.box ELSE ret[Len(ret)],
                                            call.keywordUpper, call.categoryUpper).box)
  /\ pc' = IF Len(ret) + 1 = MaxApplications THEN "done" ELSE "call"
  /\ UNCHANGED <<appVars, call>>

SpecRepeat == InitRepeat /\ [][UpsertAgain]_vars

\* C11: for any rule text and any non-empty keyword and category, the second and
\* the third application of addOrUpdateRuleLine leave the rule text as the first
\* application left it: no further line is appended.
C11_UpsertIdempotent ==
  call.fn = "upsertRepeat" => \A i \in 2..Len(ret) : ret[i] = ret[1]


-----------------------------------------------------------------------------
(* parseDateSmart and yyyymm on date strings of the three forms *)

DateNumbers == {<<"1">>, <<"0","1">>, <<"2">>, <<"0","2">>, <<"1","3">>, <<"3","1">>, <<"0","0">>, <<"2","0","2","4">>, <<"0","0","5","0">>}
DateSeparators == {"/", "-"}
ProsePrefixes == {<<>>, <<"M","o","n"," ">>, <<"3",":","4","5","p","m"," ">>, <<"3",":","4","5"," ","P","M"," ","t","u","e"," ">>}
ProseMonths == {<<"M","a","r","c","h">>, <<"f","e","b","r","u","a","r","y">>, <<"D","E","C","E","M","B","E","R">>, <<"M","a","r","c">>}

\* a OP b OP c
NumericDates ==
  {[fn |-> "parseDateSmart", form |-> "numeric", parts |-> <<a, b, c>>,
    s |-> a \o <<s1>> \o b \o <<s2>> \o c] :
     a \in DateNumbers, b \in DateNumbers, c \in DateNumbers,
     s1 \in DateSeparators, s2 \in DateSeparators}

\* [time] [weekday] D MonthName[,] YYYY
ProseDates ==
  {[fn |-> "parseDateSmart", form |-> "prose", parts |-> <<d, mo, y>>,
    s |-> pre \o d \o <<" ">> \o mo \o comma \o <<" ">> \o y] :
     pre \in ProsePrefixes, d \in {<<"1">>, <<"3","1">>, <<"0">>}, mo \in ProseMonths,
     comma \in {<<>>, <<",">>}, y \in {<<"2","0","2","4">>, <<"0","0","5","0">>}}

OtherDates ==
  {[fn |-> "parseDateSmart", form |-> "other", parts |-> <<>>, s |-> s] :
     s \in {<<>>, <<" ","0","1","/","0","2","/","2","0","2","4"," ">>, <<"1"," ","M","a","r","c","h",",","2","0","2","4">>, <<"2","0","2","4","-","0","2","-","0","1","T","1","0",":","0","0">>, <<"0","2","/","2","0","2","4">>,
            <<"1",".","2",".","2","0","2","4">>, <<"M","a","r","c","h"," ","1",","," ","2","0","2","4">>}}

DateCalls == NumericDates \cup ProseDates \cup OtherDates

InitDate == Idle /\ pc = "call" /\ call \in DateCalls /\ ret = <<>>

\* script.js:168, 223  parseDateSmart(s), and yyyymm of the date when there is one
CallParseDate ==
  /\ pc = "call"
  /\ call.fn = "parseDateSmart"
  /\ ret' = [date |-> parseDateSmart(call.s),
             key  |-> IF parseDateSmart(call.s) = null THEN null
                      ELSE yyyymm(parseDateSmart(call.s))]
  /\ pc' = "done"
  /\ UNCHANGED <<appVars, call>>

SpecDate == InitDate /\ [][CallParseDate]_vars

\* the 1-based number of the month a prose date names, 0 when it names none
monthNumberOf(name) ==
  LET ks == {k \in 1..12 : MonthNames[k] = toLowerCase(name)}
  IN  IF ks = {} THEN 0 ELSE SetMin(ks)

\* a year, a month number and a day that need no carrying in any month
plainDate(y, m, d) == y >= 1000 /\ m \in 1..12 /\ d \in 1..28

\* C12: the forms are read in the order ISO, D/M/YYYY, prose. "01/02/2024" is day
\* 1, month 2, 2024 (not month 1, day 2); "2024-02-01" is 2024, month 2, day 1;
\* "1 March, 2024" is day 1, month 3, 2024; and so for every string of the three
\* forms whose numbers are a calendar date: YYYY-M-D reads year, month, day,
\* D/M/YYYY reads day, month, year, and the prose form reads day, named month, year.
C12_DatePrecedence ==
  (pc = "done" /\ call.fn = "parseDateSmart") =>
    /\ call.s = <<"0","1","/","0","2","/","2","0","2","4">> => ret.date = <<2024, 1, 1>>
    /\ call.s = <<"2","0","2","4","-","0","2","-","0","1">> => ret.date = <<2024, 1, 1>>
    /\ call.s = <<"1"," ","M","a","r","c","h",","," ","2","0","2","4">> => ret.date = <<2024, 2, 1>>
    /\ call.form = "numeric" =>
         LET a == DigitsValue(call.parts[1])
             b == DigitsValue(call.parts[2])
             c == DigitsValue(call.parts[3])
         IN  /\ (Len(call.parts[1]) = 4 /\ Len(call.parts[3]) <= 2 /\ plainDate(a, b, c))
                  => ret.date = <<a, b - 1, c>>
             /\ (Len(call.parts[1]) <= 2 /\ Len(call.parts[3]) = 4 /\ plainDate(c, b, a))
                  => ret.date = <<c, b - 1, a>>
    /\ call.form = "prose" =>
         LET d == DigitsValue(call.parts[1])
             m == monthNumberOf(call.parts[2])
             y == DigitsValue(call.parts[3])
         IN  plainDate(y, m, d) => ret.date = <<y, m - 1, d>>

C12_Witness ==
  /\ pc = "done" /\ call.fn = "parseDateSmart"
  /\ call.s = <<"0","1","/","0","2","/","2","0","2","4">>
  /\ getDate(ret.date) = 1 /\ getMonth(ret.date) + 1 = 2 /\ getFullYear(ret.date) = 2024

\* the year and the month written in a date string of the numeric or prose form,
\* as a zero-padded YYYY-MM
writtenMonthKey(c) ==
  IF c.form = "prose"
  THEN c.parts[3] \o <<"-">> \o padStart2(natToStr(monthNumberOf(c.parts[2])))
  ELSE IF Len(c.parts[1]) = 4
  THEN c.parts[1] \o <<"-">> \o padStart2(natToStr(DigitsValue(c.parts[2])))
  ELSE c.parts[3] \o <<"-">> \o padStart2(natToStr(DigitsValue(c.parts[2])))

\* C13: for every input parseDateSmart yields "unparseable" or a date whose month
\* is in 1..12, and the yyyymm of an accepted input is the zero-padded YYYY-MM of
\* the year and the month written in that input.
C13_MonthKeyAsWritten ==
  (pc = "done" /\ call.fn = "parseDateSmart" /\ ret.date # null) =>
    /\ getMonth(ret.date) + 1 \in 1..12
    /\ call.form \in {"numeric", "prose"} => ret.key = writtenMonthKey(call)


-----------------------------------------------------------------------------
(* monthFilteredTxns() on a transaction list and a month filter *)

MaxMonthTxns == 3

MonthDates == {<<"0","1","/","0","2","/","2","0","2","4">>, <<"2","0","2","4","-","0","2","-","1","5">>, <<"1"," ","M","a","r","c","h",","," ","2","0","2","4">>, <<"3","1","/","0","2","/","2","0","2","4">>,
               <<"s","o","o","n">>, <<>>}
MonthTxnSamples ==
  {[date |-> d, amount |-> Dec(150, 2), description |-> <<"S","H","E","L","L">>, category |-> undefined] :
     d \in MonthDates}
MonthFilters == {<<>>, <<"2","0","2","4","-","0","2">>, <<"2","0","2","4","-","0","3">>}

MonthCalls ==
  {[fn |-> "monthFilteredTxns", txns |-> txns, monthFilter |-> f] :
     txns \in SeqsUpTo(MonthTxnSamples, MaxMonthTxns), f \in MonthFilters}

InitMonth == Idle /\ pc = "call" /\ call \in MonthCalls /\ ret = <<>>

\* Array.prototype.filter: the elements of txns at the indices idxs, in their order
RECURSIVE txnsAt(_, _)
txnsAt(txns, idxs) ==
  IF idxs = {} THEN <<>>
  ELSE <<txns[SetMin(idxs)]>> \o txnsAt(txns, idxs \ {SetMin(idxs)})

\* script.js:338  monthFilteredTxns() with CURRENT_TXNS = txns and MONTH_FILTER =
\* monthFilter; ret is the array it returns
CallMonthFiltered ==
  /\ pc = "call"
  /\ call.fn = "monthFilteredTxns"
  /\ ret' = txnsAt(call.txns, monthFilteredTxns(call.txns, call.monthFilter))
  /\ pc' = "done"
  /\ UNCHANGED <<appVars, call>>

SpecMonth == InitMonth /\ [][CallMonthFiltered]_vars

\* the positions of the transactions of c.txns whose date parses and has c.monthFilter
\* as its month key
datedInMonth(c) ==
  {i \in 1..Len(c.txns) :
     /\ parseDateSmart(c.txns[i].date) # null
     /\ yyyymm(parseDateSmart(c.txns[i].date)) = c.monthFilter}

\* C14: with a month filter, monthFilteredTxns keeps exactly the transactions whose
\* parsed date has the filter as its month key, in their order, and leaves out
\* those whose date does not parse; with no filter it returns all transactions.
C14_MonthFilter ==
  (pc = "done" /\ call.fn = "monthFilteredTxns") =>
    /\ call.monthFilter = <<>> => ret = call.txns
    /\ call.monthFilter # <<>> =>
         /\ Len(ret) = Cardinality(datedInMonth(call))
         /\ \A i \in datedInMonth(call) :
              ret[1 + Cardinality({k \in datedInMonth(call) : k < i})] = call.txns[i]

C14_Witness ==
  /\ pc = "done" /\ call.fn = "monthFilteredTxns"
  /\ call.monthFilter = <<"2","0","2","4","-","0","2">>
  /\ Len(call.txns) = 3
  /\ call.txns[1].date = <<"s","o","o","n">>
  /\ call.txns[2].date = <<"2","0","2","4","-","0","2","-","1","5">>
  /\ call.txns[3].date = <<"0","1","/","0","2","/","2","0","2","4">>
  /\ ret = <<call.txns[2], call.txns[3]>>


-----------------------------------------------------------------------------
(* SECTION 9: category totals.  The sums are sums of Numbers, IEEE 754 doubles: *)
(* a double is written [neg, bits, exp], the bits of an odd integer, most       *)
(* significant first, times 2^exp; a double has at most 53 bits.  The amount of *)
(* a transaction, the decimal it was parsed from, is the double nearest to it.  *)
(* No sum of the amounts used here leaves the range of the normal doubles.      *)

Max(a, b) == IF a >= b THEN a ELSE b

\* the double 0
D0 == [neg |-> FALSE, bits |-> <<>>, exp |-> 0]

zeros(n) == [i \in 1..n |-> 0]

\* bits * 2^exp with the sign neg, the zeros at both ends of bits taken off
Dyadic(neg, bits, exp) ==
  IF \A i \in 1..Len(bits) : bits[i] = 0 THEN D0
  ELSE [neg  |-> neg,
        bits |-> SubSeq(bits, SetMin({i \in 1..Len(bits) : bits[i] = 1}),
                              SetMax({i \in 1..Len(bits) : bits[i] = 1})),
        exp  |-> exp + Len(bits) - SetMax({i \in 1..Len(bits) : bits[i] = 1})]

\* whether a + b + c, for a and b of the same length and a carry c, has a carry
carries(a, b, c) ==
  \/ \E j \in 1..Len(a) : a[j] + b[j] = 2 /\ \A k \in 1..(j - 1) : a[k] + b[k] = 1
  \/ c = 1 /\ \A k \in 1..Len(a) : a[k] + b[k] = 1

\* a + b + c, for a and b of the same length and a carry c: one bit longer.  The
\* carry of the low half goes into the high half.
RECURSIVE addBits(_, _, _)
addBits(a, b, c) ==
  IF a = <<>> THEN <<c>>
  ELSE IF Len(a) = 1 THEN <<(a[1] + b[1] + c) \div 2, (a[1] + b[1] + c) % 2>>
  ELSE LET h   == Len(a) \div 2
           alo == SubSeq(a, h + 1, Len(a))
           blo == SubSeq(b, h + 1, Len(b))
       IN  addBits(SubSeq(a, 1, h), SubSeq(b, 1, h), IF carries(alo, blo, c) THEN 1 ELSE 0)
             \o Tail(addBits(alo, blo, c))

\* a < b, for a and b of the same length
lessBits(a, b) ==
  \E i \in 1..Len(a) : a[i] < b[i] /\ \A j \in 1..(i - 1) : a[j] = b[j]

\* a - b - c, for a and b of the same length, a >= b + c, and a borrow c.  The
\* high half lends to the low half when that is less than what is taken off it.
RECURSIVE subBits(_, _, _)
subBits(a, b, c) ==
  IF a = <<>> THEN <<>>
  ELSE IF Len(a) = 1 THEN <<(a[1] - b[1] - c + 2) % 2>>
  ELSE LET h   == Len(a) \div 2
           alo == SubSeq(a, h + 1, Len(a))
           blo == SubSeq(b, h + 1, Len(b))
       IN  subBits(SubSeq(a, 1, h), SubSeq(b, 1, h),
                   IF lessBits(alo, blo) \/ (c = 1 /\ alo = blo) THEN 1 ELSE 0)
             \o subBits(alo, blo, c)

\* round to nearest, ties to even: the double nearest to sig * 2^exp, or to a
\* value between that and (sig + 1) * 2^exp when sticky; sig starts with a 1 and
\* has more than 53 bits
roundSig(neg, sig, exp, sticky) ==
  IF sig[54] = 1 /\ (sticky \/ sig[53] = 1 \/ \E i \in 55..Len(sig) : sig[i] = 1)
  THEN Dyadic(neg, addBits(SubSeq(sig, 1, 53), zeros(53), 1), exp + Len(sig) - 53)
  ELSE Dyadic(neg, SubSeq(sig, 1, 53), exp + Len(sig) - 53)

\* the double nearest to bits * 2^exp (or just above it, when sticky)
round(neg, bits, exp, sticky) ==
  IF \A i \in 1..Len(bits) : bits[i] = 0 THEN D0
  ELSE roundSig(neg, SubSeq(bits, SetMin({i \in 1..Len(bits) : bits[i] = 1}), Len(bits))
                       \o zeros(54),
                exp - 54, sticky)

\* the bits of the integer q
RECURSIVE IntBits(_)
IntBits(q) == IF q = 0 THEN <<>> ELSE IntBits(q \div 2) \o <<q % 2>>

\* what is left of r < d once k bits of r / d behind the binary point are taken
RECURSIVE divRem(_, _, _)
divRem(r, d, k) ==
  IF k = 0 \/ r = 0 THEN r
  ELSE IF k = 1 THEN (2 * r) % d
  ELSE divRem(divRem(r, d, k \div 2), d, k - k \div 2)

\* the first k bits of r / d behind the binary point, for r < d
RECURSIVE divBits(_, _, _)
divBits(r, d, k) ==
  IF k = 0 THEN <<>>
  ELSE IF k = 1 THEN <<(2 * r) \div d>>
  ELSE divBits(r, d, k \div 2) \o divBits(divRem(r, d, k \div 2), d, k - k \div 2)

\* bits taken behind the binary point: 53 and those of the rounding, after the
\* zeros that a fraction of less than 2^30 in the denominator can start with
FracBits == 96

\* the Number a decimal [m, e] is read as: the double nearest to m / 10^e
toDouble(x) ==
  round(x.m < 0,
        IntBits(Abs(x.m) \div Pow10(x.e)) \o divBits(Abs(x.m) % Pow10(x.e), Pow10(x.e), FracBits),
        -FracBits,
        divRem(Abs(x.m) % Pow10(x.e), Pow10(x.e), FracBits) # 0)

\* the bits of d from 2^(e + n - 1) down to 2^e
alignTo(d, e, n) ==
  zeros(n - Len(d.bits) - (d.exp - e)) \o d.bits \o zeros(d.exp - e)

\* a * 2^e with the sign xneg plus b * 2^e with the sign yneg, exactly
sumAligned(xneg, a, yneg, b, e) ==
  IF xneg = yneg THEN Dyadic(xneg, addBits(a, b, 0), e)
  ELSE IF lessBits(a, b) THEN Dyadic(yneg, subBits(b, a, 0), e)
  ELSE Dyadic(xneg, subBits(a, b, 0), e)

\* the lowest and the highest power of 2 in x or y
lowExp(x, y) == IF x.exp < y.exp THEN x.exp ELSE y.exp
highExp(x, y) == Max(x.exp + Len(x.bits), y.exp + Len(y.bits))

\* the sum of x and y as real numbers
exactSum(x, y) ==
  IF x = D0 THEN y
  ELSE IF y = D0 THEN x
  ELSE sumAligned(x.neg, alignTo(x, lowExp(x, y), highExp(x, y) - lowExp(x, y)),
                  y.neg, alignTo(y, lowExp(x, y), highExp(x, y) - lowExp(x, y)),
                  lowExp(x, y))

\* the nearest double to a number whose bits are all given
nearest(d) == round(d.neg, d.bits, d.exp, FALSE)

\* script.js:472, 479  x + y
plus(x, y) == nearest(exactSum(x, y))

\* script.js:476  b[1] - a[1] > 0, that is a[1] < b[1]
lessThan(x, y) ==
  exactSum(y, [x EXCEPT !.neg = ~x.neg]) # D0 /\ ~exactSum(y, [x EXCEPT !.neg = ~x.neg]).neg

\* mapSet, each transaction replacing the total of its category
mapSet_overwrite(byCat, cat, amount) ==
  LET at == {k \in 1..Len(byCat) : byCat[k][1] = cat}
  IN  IF at = {} THEN Append(byCat, <<cat, plus(D0, amount)>>)
      ELSE [byCat EXCEPT ![SetMin(at)] = <<cat, amount>>]

\* script.js:472  byCat.set(cat, (byCat.get(cat) || 0) + amount), the Map as its
\* entries in insertion order
mapSet(byCat, cat, amount) ==
  LET at == {k \in 1..Len(byCat) : byCat[k][1] = cat}
  IN  IF at = {} THEN Append(byCat, <<cat, plus(D0, amount)>>)
      ELSE [byCat EXCEPT ![SetMin(at)] = <<cat, plus(byCat[SetMin(at)][2], amount)>>]

\* script.js:467-473  the Map after the first n transactions
RECURSIVE byCatOf(_, _)
byCatOf(txns, n) ==
  IF n = 0 THEN <<>>
  ELSE mapSet(byCatOf(txns, n - 1), effectiveCategory(txns[n]), toDouble(txns[n].amount))

\* one step of the stable sort by (a, b) => b[1] - a[1]: row r put behind the rows
\* of sorted whose total is not less than its own
insertRow(sorted, r) ==
  LET less == {k \in 1..Len(sorted) : lessThan(sorted[k][2], r[2])}
      at   == IF less = {} THEN Len(sorted) + 1 ELSE SetMin(less)
  IN  SubSeq(sorted, 1, at - 1) \o <<r>> \o SubSeq(sorted, at, Len(sorted))

\* script.js:476  [...byCat.entries()].sort((a, b) => b[1] - a[1]), on the first n entries
RECURSIVE sortRows(_, _)
sortRows(entries, n) ==
  IF n = 0 THEN <<>> ELSE insertRow(sortRows(entries, n - 1), entries[n])

\* script.js:479  rows.reduce((acc, [, v]) => acc + v, 0), on the first n rows
RECURSIVE sumRows(_, _)
sumRows(rows, n) == IF n = 0 THEN D0 ELSE plus(sumRows(rows, n - 1), rows[n][2])

totalsOf(rows) == [rows |-> rows, grand |-> sumRows(rows, Len(rows))]

\* script.js:462  computeCategoryTotals
computeCategoryTotals(txns) ==
  totalsOf(sortRows(byCatOf(txns, Len(txns)), Len(byCatOf(txns, Len(txns)))))

MaxTotalTxns == 3

\* amounts with two decimals, most of them no double: 0.10, 0.20, 0.70, -1.50
TotalAmounts == {Dec(1, 1), Dec(2, 1), Dec(7, 1), Dec(-15, 1)}
TotalCategories == {undefined, <<>>, <<"F","o","o","d">>, <<"F","O","O","D">>}
TotalTxnSamples ==
  {[date |-> <<"0","1","/","0","2","/","2","0","2","4">>, amount |-> a, description |-> <<"S","H","E","L","L">>, category |-> c] :
     a \in TotalAmounts, c \in TotalCategories}

TotalsCalls ==
  {[fn |-> "computeCategoryTotals", txns |-> txns] :
     txns \in SeqsUpTo(TotalTxnSamples, MaxTotalTxns)}

InitTotals == Idle /\ pc = "call" /\ call \in TotalsCalls /\ ret = <<>>

\* script.js:462  computeCategoryTotals(txns) runs; ret is { rows, grand }
CallTotals ==
  /\ pc = "call"
  /\ call.fn = "computeCategoryTotals"
  /\ ret' = computeCategoryTotals(call.txns)
  /\ pc' = "done"
  /\ UNCHANGED <<appVars, call>>

SpecTotals == InitTotals /\ [][CallTotals]_vars

\* the category a transaction counts under: its category in upper case,
\* UNCATEGORISED when it has none or an empty one
countedUnder(t) ==
  IF t.category = undefined \/ t.category = <<>> THEN <<"U","N","C","A","T","E","G","O","R","I","S","E","D">>
  ELSE toUpperCase(t.category)

\* the value of a sequence of bits
RECURSIVE BitsValue(_)
BitsValue(b) == IF b = <<>> THEN 0 ELSE 2 * BitsValue(SubSeq(b, 1, Len(b) - 1)) + b[Len(b)]

\* 100 * |x|, exactly
times100(x) ==
  exactSum(exactSum([x EXCEPT !.neg = FALSE, !.exp = @ + 6], [x EXCEPT !.neg = FALSE, !.exp = @ + 5]),
           [x EXCEPT !.neg = FALSE, !.exp = @ + 2])

\* the integer part of x >= 0
intPart(x) ==
  IF x.exp >= 0 THEN BitsValue(x.bits \o zeros(x.exp))
  ELSE BitsValue(SubSeq(x.bits, 1, Len(x.bits) + x.exp))

\* script.js:505, 513  total.toFixed(2), as the number of cents it shows: the integer
\* nearest to 100 * x, the one further from 0 of two
toFixed2(x) ==
  IF x = D0 THEN 0
  ELSE (IF x.neg THEN -1 ELSE 1)
         * intPart(exactSum(times100(x), [neg |-> FALSE, bits |-> <<1>>, exp |-> -1]))

\* the signed sum of the amounts of the first n transactions, added in the
\* order of the list
RECURSIVE signedSum(_, _)
signedSum(txns, n) ==
  IF n = 0 THEN D0 ELSE plus(signedSum(txns, n - 1), toDouble(txns[n].amount))

\* the cents of the first n transactions, amounts of at most two decimals
RECURSIVE signedCents(_, _)
signedCents(txns, n) ==
  IF n = 0 THEN 0
  ELSE signedCents(txns, n - 1) + txns[n].amount.m * Pow10(2 - txns[n].amount.e)

\* the cents that the first n rows show
RECURSIVE rowCents(_, _)
rowCents(rows, n) == IF n = 0 THEN 0 ELSE rowCents(rows, n - 1) + toFixed2(rows[n][2])

\* C15 (amended): computeCategoryTotals returns one row for each distinct
\* upper-cased effective category (UNCATEGORISED for an empty or absent one);
\* for amounts of at most two decimals the row totals, the grand total and the
\* signed sum of all amounts agree to the cent, which is what toFixed(2) shows
\* of them: the cents of the row totals add up to the cents of the grand total,
\* which are the cents of the amounts added up.
C15_TotalsConserveToTheCent ==
  (pc = "done" /\ call.fn = "computeCategoryTotals") =>
    /\ {ret.rows[k][1] : k \in 1..Len(ret.rows)}
         = {countedUnder(call.txns[i]) : i \in 1..Len(call.txns)}
    /\ \A j, k \in 1..Len(ret.rows) : ret.rows[j][1] = ret.rows[k][1] => j = k
    /\ rowCents(ret.rows, Len(ret.rows)) = toFixed2(ret.grand)
    /\ toFixed2(ret.grand) = signedCents(call.txns, Len(call.txns))

\* 0.10 under Food, 0.20 and 0.70 with no category: the rows are UNCATEGORISED
\* 0.8999999999999999 and FOOD 0.1, the grand total 0.9999999999999999 is not
\* the double 1, and it shows as 1.00
C15_Witness ==
  /\ pc = "done" /\ call.fn = "computeCategoryTotals"
  /\ Len(call.txns) = 3
  /\ call.txns[1].category = <<"F","o","o","d">> /\ call.txns[1].amount = Dec(1, 1)
  /\ call.txns[2].category = undefined /\ call.txns[2].amount = Dec(2, 1)
  /\ call.txns[3].category = <<>> /\ call.txns[3].amount = Dec(7, 1)
  /\ Len(ret.rows) = 2
  /\ ret.rows[1][1] = <<"U","N","C","A","T","E","G","O","R","I","S","E","D">>
  /\ ret.rows[1][2] # toDouble(Dec(9, 1))
  /\ ret.rows[2] = <<<<"F","O","O","D">>, toDouble(Dec(1, 1))>>
  /\ ret.grand # toDouble(Dec(1, 0))
  /\ toFixed2(ret.grand) = 100

\* C15 as claimed: computeCategoryTotals returns one row for each distinct
\* upper-cased effective category (UNCATEGORISED for an empty or absent one), and
\* the sum of the row totals equals the grand total, which equals the signed sum
\* of all amounts.
C15_TotalsConserve ==
  (pc = "done" /\ call.fn = "computeCategoryTotals") =>
    /\ {ret.rows[k][1] : k \in 1..Len(ret.rows)}
         = {countedUnder(call.txns[i]) : i \in 1..Len(call.txns)}
    /\ \A j, k \in 1..Len(ret.rows) : ret.rows[j][1] = ret.rows[k][1] => j = k
    /\ sumRows(ret.rows, Len(ret.rows)) = ret.grand
    /\ ret.grand = signedSum(call.txns, Len(call.txns))


-----------------------------------------------------------------------------
(* categorise run again and again on the same transactions and rule text *)

MaxRuns == 3
MaxRerunTxns == 2

PriorCategories == {undefined, <<>>, <<"F","O","O","D">>}
RerunTxnSamples ==
  {[date |-> <<"0","1","/","0","2","/","2","0","2","4">>, amount |-> a, description |-> d, category |-> c] :
     a \in {Dec(150, 2), Dec(-45, 0)}, d \in DescriptionSamples, c \in PriorCategories}
RerunRuleTexts == {<<>>, <<"s","e","r","v","o"," ","=",">"," ","P","e","t","r","o","l">>, <<"s","h","e","l","l"," ","=",">"," ","f","u","e","l","\n","c","o","l","e","s"," ","=",">"," ","f","o","o","d">>,
                   <<"c","o","l","e","s"," ","=",">"," ","f","o","o","d","\n","s","e","r","v","o"," ","=",">"," ","P","e","t","r","o","l","\n","s","h","e","l","l"," ","=",">"," ","f","u","e","l">>}

RerunCalls ==
  {[fn |-> "rerun", txns |-> txns, text |-> text] :
     txns \in SeqsUpTo(RerunTxnSamples, MaxRerunTxns), text \in RerunRuleTexts}

InitRerun == Idle /\ pc = "call" /\ call \in RerunCalls /\ ret = <<>>

\* script.js:586, 595  one more categorise(txns, parseRules(text)) on the
\* transactions as the last run left them; ret lists them after each run
CategoriseAgain ==
  /\ pc = "call"
  /\ call.fn = "rerun"
  /\ Len(ret) < MaxRuns
  /\ ret' = Append(ret, categorise(IF ret = <<>> THEN call.txns ELSE ret[Len(ret)],
                                   parseRules(call.text)))
  /\ pc' = IF Len(ret) + 1 = MaxRuns THEN "done" ELSE "call"
  /\ UNCHANGED <<appVars, call>>

SpecRerun == InitRerun /\ [][CategoriseAgain]_vars

\* the transactions carrying no category, as the import leaves them
uncategorised(txns) == [i \in 1..Len(txns) |-> [txns[i] EXCEPT !.category = undefined]]

\* C16: running categorise again with the same transactions and the same rule
\* text reproduces the same categories: every run leaves what the first left, and
\* the first leaves what it leaves on the same transactions carrying no category,
\* whatever categories they carried before.
C16_Rerun ==
  (call.fn = "rerun" /\ ret # <<>>) =>
    /\ \A k \in 1..Len(ret) : ret[k] = ret[1]
    /\ ret[1] = categorise(uncategorised(call.txns), parseRules(call.text))
    /\ \A i \in 1..Len(call.txns) :
         /\ ret[1][i].description = call.txns[i].description
         /\ ret[1][i].amount = call.txns[i].amount

\* a transaction that carried FOOD and matches 'servo => Petrol' with 1.50 is
\* COFFEE after the first run and after the third
C16_Witness ==
  /\ pc = "done" /\ call.fn = "rerun"
  /\ call.text = <<"s","e","r","v","o"," ","=",">"," ","P","e","t","r","o","l">>
  /\ Len(call.txns) = 1
  /\ call.txns[1].category = <<"F","O","O","D">>
  /\ call.txns[1].amount = Dec(150, 2)
  /\ Len(ret) = 3
  /\ ret[1][1].category = COFFEE
  /\ ret[3][1].category = COFFEE


-----------------------------------------------------------------------------
(* assignCategory's rule for a transaction: the keyword derived from it, the  *)
(* line upserted into the rules box, and the category the rules then give it  *)

MerchantPrefixes == {<<>>, <<"V","I","S","A","-">>, <<"P","A","Y","P","A","L"," ","*">>, <<"P","A","Y","P","A","L"," ">>, <<"P","A","Y","P","A","L",".">>, <<"E","F","T","P","O","S"," ">>}
MerchantNames == {<<"C","O","L","E","S">>, <<"U","b","e","r",".","c","o","m">>, <<"7","-","E","L","E","V","E","N">>, <<"#","1","2">>, <<"A","B">>, <<"J","&","J">>}
MerchantSuffixes == {<<>>, <<" ","1","2">>, <<" ","S","Y","D","N","E","Y">>}
ChosenCategories == {<<"F","O","O","D">>, <<"P","e","t","r","o","l">>}
RoundTripBoxes == {<<>>, <<"#"," ","m","y"," ","r","u","l","e","s","\n","c","o","l","e","s"," ","=",">"," ","g","r","o","c","e","r","i","e","s">>}

RoundTripCalls ==
  {[fn |-> "assignRoundTrip",
    txn |-> [date |-> <<"0","1","/","0","2","/","2","0","2","4">>, amount |-> a, description |-> p \o n \o x,
             category |-> undefined],
    chosen |-> c, box |-> b] :
     p \in MerchantPrefixes, n \in MerchantNames, x \in MerchantSuffixes,
     a \in {Dec(150, 2), Dec(45, 0)}, c \in ChosenCategories, b \in RoundTripBoxes}

InitRoundTrip == Idle /\ pc = "call" /\ call \in RoundTripCalls /\ ret = <<>>

\* script.js:1036-1043  the rule auto-added for txn and the category the re-run
\* stores on it: kw is the derived keyword, upsert the result of addOrUpdateRuleLine
roundTrip(txn, norm, kw, upsert) ==
  [keyword  |-> kw,
   box      |-> upsert.box,
   category |-> IF upsert.ok THEN categoryFor(txn, parseRules(upsert.box)) ELSE norm]

\* script.js:1028-1043  onChoose(chosen) on the transaction: derive the keyword,
\* upsert "KEYWORD => CATEGORY", re-run the rules
CallRoundTrip ==
  /\ pc = "call"
  /\ call.fn = "assignRoundTrip"
  /\ ret' = roundTrip(call.txn, normOf(call.chosen), deriveKeywordFromTxn(call.txn),
                      addOrUpdateRuleLine(call.box, deriveKeywordFromTxn(call.txn),
                                          normOf(call.chosen)))
  /\ pc' = "done"
  /\ UNCHANGED <<appVars, call>>

SpecRoundTrip == InitRoundTrip /\ [][CallRoundTrip]_vars

\* the positions, among the rules parsed from text, of those whose keyword is kw
\* in lower case
rulesFor(text, kw) ==
  {k \in 1..Len(parseRules(text)) : parseRules(text)[k].keyword = toLowerCase(kw)}

\* C20: for every transaction whose derived keyword is not empty, that keyword,
\* lower-cased and parsed back from the upserted line, matches the transaction's
\* own description under matchesKeyword; so after assign, upsert and re-run, with
\* no earlier rule matching and no PETROL override, the transaction's category is
\* the chosen one.
C20_RoundTrip ==
  (pc = "done" /\ call.fn = "assignRoundTrip" /\ ret.keyword # <<>>) =>
    /\ rulesFor(ret.box, ret.keyword) # {}
    /\ matchesKeyword(toLowerCase(call.txn.description), toLowerCase(ret.keyword))
    /\ ( /\ \A k \in 1..Len(parseRules(ret.box)) :
              (\A j \in rulesFor(ret.box, ret.keyword) : k < j)
                => ~matchesKeyword(toLowerCase(call.txn.description),
                                   parseRules(ret.box)[k].keyword)
         /\ ~(toUpperCase(call.chosen) = PETROL /\ DecLeqInt(MathAbs(call.txn.amount), 2)) )
       => ret.category = toUpperCase(call.chosen)


-----------------------------------------------------------------------------
(* SECTION 11: paging.  The sessions of the application with files of more *)
(* than PAGE_SIZE rows: the same start-up and the same handlers.            *)

MaxPagingRows == 12

\* row i of a long file: February and March dates, every twelfth one a servo
PagingRow(i) ==
  Row(10, IF i % 2 = 1 THEN <<"0","1","/","0","2","/","2","0","2","4">> ELSE <<"2","0","2","4","-","0","3","-","0","5">>, <<"4","5",".","0","0">>,
      IF i % 12 = 0 THEN <<"S","E","R","V","O">> ELSE <<"C","O","L","E","S"," ","1","2">>)

PagingCsv(k) == <<HeaderRow>> \o [i \in 1..k |-> PagingRow(i)]
PagingCsvSamples == {PagingCsv(5), PagingCsv(MaxPagingRows)}

\* the rule text typed, imported or fetched in the sessions with the long files
PagingRuleTexts == {RulesA}

\* the row whose category cell is clicked in these sessions: the first one drawn
PagingClicked(rows) == IF rows = {} THEN {} ELSE {SetMin(rows)}

NextPaging ==
  \/ \E rows \in PagingCsvSamples : LoadCsv(rows)
  \/ Recalculate
  \/ \E text \in PagingRuleTexts \cup {rulesBox} : TypeRules(text)
  \/ \E text \in PagingRuleTexts : ImportRules(text)
  \/ \E m \in monthOptions(CURRENT_TXNS) \cup {<<>>} : MonthChange(m)
  \/ ClearMonth
  \/ \E c \in catLinks : CatLinkClick(c)
  \/ ClearFilter
  \/ \E i \in PagingClicked(table.rows) : OpenPicker(i)
  \/ \E chosen \in picker.categories : AssignCategory(picker.idx, chosen)
  \/ \E c \in NewCategoryInputs : AssignCategoryOld(picker.idx, c)
  \/ \E page \in pagerTargets(table.cur, table.pages) : PageButtonClick(page)
  \/ \E deltaY \in {-100, 100} : Wheel(deltaY)
  \/ CloseApp
  \/ \E text \in PagingRuleTexts : RulesFetched(text)
  \/ WindowLoad
  \/ BeforeUnload

SpecPaging == Init /\ [][NextPaging]_vars

\* the number of transactions passing the current month and category filters
passingFilters ==
  Cardinality({i \in 1..Len(CURRENT_TXNS) :
                 /\ MONTH_FILTER = <<>>
                    \/ /\ parseDateSmart(CURRENT_TXNS[i].date) # null
                       /\ yyyymm(parseDateSmart(CURRENT_TXNS[i].date)) = MONTH_FILTER
                 /\ CURRENT_FILTER = null
                    \/ toUpperCase(IF CURRENT_TXNS[i].category \in {undefined, <<>>}
                                   THEN <<"U","N","C","A","T","E","G","O","R","I","S","E","D">>
                                   ELSE CURRENT_TXNS[i].category) = CURRENT_FILTER})

\* C21: after every call of renderTransactionsTable, 1 <= CURRENT_PAGE <= max(1,
\* ceil(n / PAGE_SIZE)), n being the number of transactions that pass the current
\* month and category filters, whatever page-button clicks, wheel events, filter
\* changes, imports and recategorisations came before.
C21_PageInRange ==
  pc = "app" =>
    /\ CURRENT_PAGE >= 1
    /\ CURRENT_PAGE = 1 \/ (CURRENT_PAGE - 1) * PAGE_SIZE < passingFilters

\* the long file is filtered on UNCATEGORISED and a category the user assigned
\* on one of its rows has taken every row out of the filtered list: the render
\* that kept the page shows the only page left
C21_Witness ==
  /\ pc = "app"
  /\ Len(CURRENT_TXNS) = MaxPagingRows
  /\ CURRENT_FILTER = UNCATEGORISED
  /\ \E i \in 1..Len(CURRENT_TXNS) : assigned[i] \notin {null, <<>>}
  /\ passingFilters = 0
  /\ table.pages = 1
  /\ CURRENT_PAGE = 1


\* C22: a wheel-down event advances CURRENT_PAGE by one exactly when CURRENT_PAGE
\* is less than the number of pages of the most recently rendered list, and a
\* wheel-up event takes one off exactly when CURRENT_PAGE > 1: the number of
\* pages the wheel listener compares against is that of the latest render, never
\* that of an earlier one.
C22_WheelFollowsLatestRender ==
  [][/\ Wheel(100) =>
          CURRENT_PAGE' = IF CURRENT_PAGE < table.pages THEN CURRENT_PAGE + 1 ELSE CURRENT_PAGE
     /\ Wheel(-100) =>
          CURRENT_PAGE' = IF CURRENT_PAGE > 1 THEN CURRENT_PAGE - 1 ELSE CURRENT_PAGE]_vars


-----------------------------------------------------------------------------
(* The month dropdown against the month filter applied *)

\* C23: once a file is imported (rebuildMonthDropdown has run), the month shown
\* as selected in the dropdown is the month monthFilteredTxns applies: when the
\* dropdown falls back to "All months" because MONTH_FILTER is not among the
\* months of the loaded transactions, no month filter is applied and every
\* transaction is visible.
C23_DropdownShowsApplied ==
  (pc = "app" /\ Len(CURRENT_TXNS) > 0) =>
    /\ monthSel = MONTH_FILTER
    /\ monthSel = <<>> =>
         monthFilteredTxns(CURRENT_TXNS, MONTH_FILTER) = 1..Len(CURRENT_TXNS)


-----------------------------------------------------------------------------
(* The transactions saved in localStorage against CURRENT_TXNS *)

\* C24: whenever an operation that changes CURRENT_TXNS has completed (import,
\* recategorisation, category assignment, choosing "Uncategorised" included),
\* the transactions saved under TXNS_JSON are the current CURRENT_TXNS.
C24_SavedIsCurrent == [][CURRENT_TXNS' # CURRENT_TXNS => lsTxns' = CURRENT_TXNS']_vars

=============================================================================
